---- MODULE Spec2Model ----
(***************************************************************************)
(* Model of the repository-ingestion-and-remediation pipeline of the       *)
(* Patchy backend (routes/github.js with its workflow client vellum.js):   *)
(*   - parseGitHubUrl          (URL Parser)                                *)
(*   - getAllFileContents      (Repository Fetcher)                        *)
(*   - executeVellumWorkflow   (Workflow Client)                           *)
(*   - processVellumResults    (Result Processor)                          *)
(*   - createSecurityPullRequest and the /patch, /read-all-files routes    *)
(* Strings are sequences of one-character strings, so that the regular     *)
(* expressions of the source are computed character by character.          *)
(***************************************************************************)
EXTENDS Integers, Sequences, FiniteSets, TLC

VARIABLES
    pIn,        \* URL Parser harness: the (host, owner, repo) the URLs are built from
    pBase,      \* result of parseGitHubUrl on the plain URL, or NotParsed
    pReq,       \* the URL variant last handed to parseGitHubUrl, or "none"
    pOut,       \* result of parseGitHubUrl on that variant, or NotParsed
    wName,      \* Repository Fetcher: the name of each entry of the mocked tree
    wSt,        \* where the call or item promise of each entry stands
    wRes,       \* what the call or item promise of each entry resolved with
    wReq,       \* every request issued to the git provider so far
    vIn,        \* Result Processor harness: the workflow outputs handed to it
    vOut,       \* what processVellumResults returned for them, or NotProcessed
    rRoute,     \* HTTP surface: the route of the request being served
    rUrl,       \* the url of its body (empty when the body has none)
    rPc,        \* the await at which the handler stands
    rParsed,    \* the { owner, repo } the handler destructured
    rCalls,     \* the calls issued to the AI workflow and by the publisher, in order
    rWf,        \* what the workflow execution endpoint answered
    rAnalysis,  \* analysisResult
    rFixIdx,    \* createSecurityPullRequest: index of the fix being applied
    rApplied,   \* createSecurityPullRequest: appliedFixes (their file paths)
    rAck,       \* the answers the publisher's calls got so far, in order
    rDefaultBranch, \* createSecurityPullRequest: defaultBranch
    rBranch,    \* createSecurityPullRequest: newBranchName
    rResp,      \* the HTTP response sent, or NoResponse
    forkExists, \* /create-fork-pull-request: forkExists
    fForkStatus, \* the status the existence check of the fork was answered with
    fFile,      \* where the update of each of changedFiles stands
    cConfidence, \* results page: the value handed to normalizeConfidence
    cTier,      \* what normalizeConfidence returned for it, or NotComputed
    sFix,       \* the fix handed to getSeverityLevel and getSeverityColor
    sLevel,     \* what getSeverityLevel returned for it, or NotComputed
    sColor,     \* the color getSeverityColor chose for it
    bNow,       \* two publisher runs: the value of Date.now()
    bTicks,     \* how many times the clock advanced
    bPc,        \* the await at which each run stands
    bDeadline,  \* when the timer of each run fires
    bName,      \* the newBranchName of each run
    bRefs       \* the branches that exist on the fork

parseVars == <<pIn, pBase, pReq, pOut>>

walkVars == <<wName, wSt, wRes, wReq>>

procVars == <<vIn, vOut>>

routeVars ==
    <<rRoute, rUrl, rPc, rParsed, rCalls, rWf, rAnalysis, rFixIdx, rApplied,
      rAck, rDefaultBranch, rBranch, rResp>>

forkPrVars == <<forkExists, fForkStatus, fFile>>

viewVars == <<cConfidence, cTier, sFix, sLevel, sColor>>

branchVars == <<bNow, bTicks, bPc, bDeadline, bName, bRefs>>

vars == <<pIn, pBase, pReq, pOut, wName, wSt, wRes, wReq, vIn, vOut,
          rRoute, rUrl, rPc, rParsed, rCalls, rWf, rAnalysis, rFixIdx, rApplied,
          rAck, rDefaultBranch, rBranch, rResp, forkExists, fForkStatus, fFile,
          cConfidence, cTier, sFix, sLevel, sColor,
          bNow, bTicks, bPc, bDeadline, bName, bRefs>>

-----------------------------------------------------------------------------
(* Strings                                                                 *)

LowerChars ==
    {"a","b","c","d","e","f","g","h","i","j","k","l","m",
     "n","o","p","q","r","s","t","u","v","w","x","y","z"}

UpperChars ==
    {"A","B","C","D","E","F","G","H","I","J","K","L","M",
     "N","O","P","Q","R","S","T","U","V","W","X","Y","Z"}

DigitChars == {"0","1","2","3","4","5","6","7","8","9"}

StartsWithAt(s, i, p) ==
    /\ i >= 1
    /\ i + Len(p) - 1 <= Len(s)
    /\ \A k \in 1..Len(p) : s[i + k - 1] = p[k]

\* String.prototype.endsWith
EndsWith(s, p) == Len(s) >= Len(p) /\ StartsWithAt(s, Len(s) - Len(p) + 1, p)

\* String.prototype.includes
Includes(s, p) == \E i \in 1..(Len(s) + 1) : StartsWithAt(s, i, p)

\* s.slice(i - 1): the suffix of s that starts at position i
From(s, i) == SubSeq(s, i, Len(s))

DotGit == <<".","g","i","t">>

GithubComSlash == <<"g","i","t","h","u","b",".","c","o","m","/">>

-----------------------------------------------------------------------------
(* parseGitHubUrl                                                          *)
\* The pattern is  github\.com\/ OWNER \/ REPO GIT PATH $  where OWNER is ([^/]+),
\* REPO is the lazy ([^/]+?), GIT is the optional (?:\.git) and PATH is an
\* optional "/" followed by anything.

NoMatch == [ok |-> FALSE, owner |-> <<>>, repo |-> <<>>]

RestIsEndOnly(r) == r = <<>>

\* PATH $ : only a path, or nothing, is left
RestIsPathOrEnd(r) == r = <<>> \/ r[1] = "/"

\* GIT PATH $ : what may follow the repository group
TailOk(r) ==
    \/ RestIsPathOrEnd(r)
    \/ StartsWithAt(r, 1, DotGit) /\ RestIsPathOrEnd(From(r, 5))

\* [^/]+ : position of the first "/" at or after j, 0 when there is none
FirstSlashFrom(s, j) ==
    IF \E k \in j..Len(s) : s[k] = "/"
    THEN CHOOSE k \in j..Len(s) : s[k] = "/" /\ \A m \in j..(k - 1) : s[m] # "/"
    ELSE 0

\* the lengths ([^/]+?) may take when the repository group starts at r
RepoLens(s, r) ==
    {k \in 1..(Len(s) - r + 1) :
        /\ \A m \in r..(r + k - 1) : s[m] # "/"
        /\ TailOk(From(s, r + k))}

Min(S) == CHOOSE x \in S : \A y \in S : x <= y

Max(S) == CHOOSE x \in S : \A y \in S : x >= y

\* the lazy quantifier takes the shortest repository group that lets the rest match
LazyLen(S) == Min(S)

\* the match attempted with "github.com/" at position i of url
MatchAt(url, i) ==
    IF ~StartsWithAt(url, i, GithubComSlash) THEN NoMatch
    ELSE LET j == i + Len(GithubComSlash)
             e == FirstSlashFrom(url, j)
         IN  IF e = 0 \/ e = j THEN NoMatch
             ELSE LET lens == RepoLens(url, e + 1)
                  IN  IF lens = {} THEN NoMatch
                      ELSE [ok    |-> TRUE,
                            owner |-> SubSeq(url, j, e - 1),
                            repo  |-> SubSeq(url, e + 1, e + LazyLen(lens))]

\* url.match(regex): the leftmost position at which the pattern matches
RegexMatch(url) ==
    LET starts == {i \in 1..Len(url) : MatchAt(url, i).ok}
    IN  IF starts = {} THEN NoMatch ELSE MatchAt(url, Min(starts))

\* if (repo.endsWith('.git')) repo = repo.slice(0, -4)
StripGitSuffix(repo) ==
    IF EndsWith(repo, DotGit) THEN SubSeq(repo, 1, Len(repo) - 4) ELSE repo

\* ok = FALSE stands for the thrown Error('Invalid GitHub URL format')
parseGitHubUrl(url) ==
    LET match == RegexMatch(url)
    IN  IF ~match.ok THEN NoMatch
        ELSE [ok |-> TRUE, owner |-> match.owner, repo |-> StripGitSuffix(match.repo)]

-----------------------------------------------------------------------------
(* getAllFileContents: the recursive, concurrent walk of a repository tree *)

UpperSeq ==
    <<"A","B","C","D","E","F","G","H","I","J","K","L","M",
      "N","O","P","Q","R","S","T","U","V","W","X","Y","Z">>

LowerSeq ==
    <<"a","b","c","d","e","f","g","h","i","j","k","l","m",
      "n","o","p","q","r","s","t","u","v","w","x","y","z">>

LowerChar(c) ==
    IF c \in UpperChars
    THEN LowerSeq[CHOOSE k \in 1..26 : UpperSeq[k] = c]
    ELSE c

\* String.prototype.toLowerCase
ToLowerCase(s) == [k \in 1..Len(s) |-> LowerChar(s[k])]

\* name.split('.').pop(): what follows the last ".", the whole name without one
LastDotPart(s) ==
    LET dots == {k \in 1..Len(s) : s[k] = "."}
    IN  IF dots = {} THEN s ELSE From(s, Max(dots) + 1)

relevantExtensions ==
    {
      <<"j","s">>, <<"j","s","x">>, <<"t","s">>, <<"t","s","x">>, <<"v","u","e">>,
      <<"s","v","e","l","t","e">>, <<"p","y">>, <<"j","a","v","a">>, <<"p","h","p">>,
      <<"g","o">>, <<"r","b">>, <<"c","s">>, <<"c","p","p">>, <<"c">>, <<"r","s">>,
      <<"s","q","l">>, <<"g","r","a","p","h","q","l">>, <<"j","s","o","n">>,
      <<"y","a","m","l">>, <<"y","m","l">>, <<"t","o","m","l">>, <<"s","h">>,
      <<"b","a","s","h">>, <<"p","s","1">>, <<"d","o","c","k","e","r","f","i","l","e">>
    }

skipDirectories ==
    {
      <<".","n","e","x","t">>, <<"n","o","d","e","_","m","o","d","u","l","e","s">>,
      <<"d","i","s","t">>, <<"b","u","i","l","d">>, <<".","g","i","t">>,
      <<".","v","s","c","o","d","e">>, <<".","i","d","e","a">>,
      <<"v","e","n","d","o","r">>, <<"t","a","r","g","e","t">>,
      <<"_","_","p","y","c","a","c","h","e","_","_">>,
      <<".","p","y","t","e","s","t","_","c","a","c","h","e">>,
      <<"c","o","v","e","r","a","g","e">>,
      <<".","n","y","c","_","o","u","t","p","u","t">>, <<"l","o","g","s">>,
      <<"t","m","p">>, <<"t","e","m","p">>, <<".","c","a","c","h","e">>,
      <<".","p","a","r","c","e","l","-","c","a","c","h","e">>
    }

\* skipFilePatterns.some(pattern => pattern.test(fileName))
MatchesSkipPattern(fileName) ==
    \/ Includes(fileName, <<".","h","o","t","-","u","p","d","a","t","e",".">>)
    \/ EndsWith(fileName, <<".","m","a","p">>)
    \/ Includes(fileName, <<".","m","i","n",".">>)
    \/ Includes(fileName, <<".","b","u","n","d","l","e",".">>)
    \/ Includes(fileName, <<".","c","h","u","n","k",".">>)
    \/ EndsWith(fileName, <<"p","a","c","k","a","g","e","-","l","o","c","k",".","j","s","o","n">>)
    \/ EndsWith(fileName, <<"y","a","r","n",".","l","o","c","k">>)
    \/ EndsWith(fileName, <<".","l","o","g">>)

(* The mocked repository: a fixed shape whose entry names vary.            *)
(*   root: d1/  f1  f2  s1(submodule)      d1: f3  d2/       d2: f4        *)

Nodes == {"root", "d1", "d2", "f1", "f2", "f3", "f4", "s1"}

Dirs == {"root", "d1", "d2"}

Files == {"f1", "f2", "f3", "f4"}

ItemType(n) ==
    IF n \in Dirs THEN "dir" ELSE IF n \in Files THEN "file" ELSE "submodule"

\* the entries of a directory, in listing order
Children(d) ==
    CASE d = "root" -> <<"d1", "f1", "f2", "s1">>
      [] d = "d1"   -> <<"f3", "d2">>
      [] d = "d2"   -> <<"f4">>
      [] OTHER      -> <<>>

Parent(n) ==
    CASE n \in {"d1", "f1", "f2", "s1"} -> "root"
      [] n \in {"f3", "d2"}             -> "d1"
      [] n = "f4"                       -> "d2"
      [] OTHER                          -> "root"

NameChoices(n) ==
    CASE n = "root" -> { <<>> }
      [] n = "d1"   -> { <<"s","r","c">>, <<"n","o","d","e","_","m","o","d","u","l","e","s">> }
      [] n = "d2"   -> { <<"l","i","b">>, <<"B","u","i","l","d">> }
      [] n = "f1"   -> { <<"a","p","p",".","j","s">>, <<"l","o","g","o",".","p","n","g">> }
      [] n = "f2"   -> { <<"a","p","p",".","m","i","n",".","j","s">>, <<"D","o","c","k","e","r","f","i","l","e">>, <<"L","I","C","E","N","S","E">> }
      [] n = "f3"   -> { <<"i","n","d","e","x",".","T","S">>, <<"y","a","r","n",".","l","o","c","k">> }
      [] n = "f4"   -> { <<"u","t","i","l",".","p","y">>, <<"x",".","m","a","p">> }
      [] n = "s1"   -> { <<"e","x","t">> }

RECURSIVE PathOf(_, _)
\* item.path: the names from the root down to n, joined by "/"
PathOf(names, n) ==
    IF n = "root" THEN <<>>
    ELSE IF Parent(n) = "root" THEN names[n]
    ELSE PathOf(names, Parent(n)) \o <<"/">> \o names[n]

IsChild(n, d) == \E k \in 1..Len(Children(d)) : Children(d)[k] = n

\* Buffer.from(fileResponse.data.content, 'base64').toString('utf-8')
DecodedContent(n) == <<"t","e","x","t">>

FileRecord(n, content) ==
    [path |-> PathOf(wName, n), name |-> wName[n], sha |-> n, content |-> content]

CaseSensitiveDirName(n) == wName[n]

\* const dirName = item.name.toLowerCase()
DirName(n) == ToLowerCase(wName[n])

AlwaysRelevant(n) == TRUE

\* relevantExtensions.includes(item.name.split('.').pop()?.toLowerCase())
IsRelevant(n) == ToLowerCase(LastDotPart(wName[n])) \in relevantExtensions

\* the synchronous part of the items.map callback for entry n
ItemOutcome(n) ==
    IF ItemType(n) = "dir"
    THEN IF DirName(n) \in skipDirectories THEN "skipped" ELSE "listing"
    ELSE IF ItemType(n) = "file"
    THEN IF MatchesSkipPattern(ToLowerCase(wName[n])) THEN "skipped"
         ELSE IF ~IsRelevant(n) THEN "meta"
         ELSE "fetching"
    ELSE "ignored"

Request(kind, n) == [kind |-> kind, node |-> n, path |-> PathOf(wName, n)]

Settled == {"skipped", "meta", "fetched", "fetchErr", "ignored", "done", "failed"}

RECURSIVE Flatten(_, _)
\* results.forEach(result => files.push(...)) over the entries in listing order
Flatten(res, kids) ==
    IF kids = <<>> THEN <<>>
    ELSE res[Head(kids)] \o Flatten(res, Tail(kids))

Rethrown == "rejected"

\* catch (error) { console.error(...) } : the call still returns its empty list
OnListError == "failed"

WalkIdle ==
    /\ wName = [n \in Nodes |-> <<>>]
    /\ wSt = [n \in Nodes |-> "idle"]
    /\ wRes = [n \in Nodes |-> <<>>]
    /\ wReq = {}

WalkInit ==
    /\ \E a \in NameChoices("d1"), b \in NameChoices("d2"),
          p \in NameChoices("f1"), q \in NameChoices("f2"),
          r \in NameChoices("f3"), t \in NameChoices("f4"),
          u \in NameChoices("s1") :
            wName = [n \in Nodes |->
                       CASE n = "d1" -> a [] n = "d2" -> b
                         [] n = "f1" -> p [] n = "f2" -> q
                         [] n = "f3" -> r [] n = "f4" -> t
                         [] n = "s1" -> u [] OTHER -> <<>>]
    /\ wSt = [n \in Nodes |-> "idle"]
    /\ wRes = [n \in Nodes |-> <<>>]
    /\ wReq = {}

\* getAllFileContents(owner, repo): the listing request of the root is issued
StartWalk ==
    /\ wSt["root"] = "idle"
    /\ wSt' = [wSt EXCEPT !["root"] = "listing"]
    /\ wReq' = wReq \cup {Request("list", "root")}
    /\ UNCHANGED <<wName, wRes>>

\* the listing of d arrives: every entry is mapped, which issues the content
\* requests of its relevant files and the listing requests of its directories
ListOk(d) ==
    /\ wSt[d] = "listing"
    /\ wSt' = [n \in Nodes |->
                 IF n = d THEN "waiting"
                 ELSE IF IsChild(n, d) THEN ItemOutcome(n)
                 ELSE wSt[n]]
    /\ wRes' = [n \in Nodes |->
                 IF IsChild(n, d) /\ ItemOutcome(n) = "meta"
                 THEN <<FileRecord(n, <<>>)>>
                 ELSE wRes[n]]
    /\ wReq' = wReq
                 \cup {Request("content", n) :
                         n \in {c \in Nodes : IsChild(c, d) /\ ItemOutcome(c) = "fetching"}}
                 \cup {Request("list", n) :
                         n \in {c \in Nodes : IsChild(c, d) /\ ItemOutcome(c) = "listing"}}
    /\ UNCHANGED wName

\* the listing request of d fails
ListFail(d) ==
    /\ wSt[d] = "listing"
    /\ wSt' = [wSt EXCEPT ![d] = OnListError]
    /\ wRes' = [wRes EXCEPT ![d] = <<>>]
    /\ UNCHANGED <<wName, wReq>>

\* the content of file f arrives
ContentOk(f) ==
    /\ wSt[f] = "fetching"
    /\ wSt' = [wSt EXCEPT ![f] = "fetched"]
    /\ wRes' = [wRes EXCEPT ![f] = <<FileRecord(f, DecodedContent(f))>>]
    /\ UNCHANGED <<wName, wReq>>

\* the content request of file f fails: the record is kept, with empty content
ContentFail(f) ==
    /\ wSt[f] = "fetching"
    /\ wSt' = [wSt EXCEPT ![f] = "fetchErr"]
    /\ wRes' = [wRes EXCEPT ![f] = <<FileRecord(f, <<>>)>>]
    /\ UNCHANGED <<wName, wReq>>

GatherLastFirst(d) ==
    /\ wSt[d] = "waiting"
    /\ \A k \in 1..Len(Children(d)) : wSt[Children(d)[k]] \in Settled \cup {Rethrown}
    /\ IF \E k \in 1..Len(Children(d)) : wSt[Children(d)[k]] = Rethrown
       THEN /\ wSt' = [wSt EXCEPT ![d] = OnListError]
            /\ wRes' = [wRes EXCEPT ![d] = <<>>]
       ELSE /\ wSt' = [wSt EXCEPT ![d] = "done"]
            /\ wRes' = [wRes EXCEPT ![d] =
                           Flatten(wRes, [k \in 1..Len(Children(d)) |->
                                             Children(d)[Len(Children(d)) + 1 - k]])]
    /\ UNCHANGED <<wName, wReq>>

\* await Promise.all(itemPromises) of d returns: the results are flattened
Gather(d) ==
    /\ wSt[d] = "waiting"
    /\ \A k \in 1..Len(Children(d)) : wSt[Children(d)[k]] \in Settled \cup {Rethrown}
    /\ IF \E k \in 1..Len(Children(d)) : wSt[Children(d)[k]] = Rethrown
       THEN /\ wSt' = [wSt EXCEPT ![d] = OnListError]
            /\ wRes' = [wRes EXCEPT ![d] = <<>>]
       ELSE /\ wSt' = [wSt EXCEPT ![d] = "done"]
            /\ wRes' = [wRes EXCEPT ![d] = Flatten(wRes, Children(d))]
    /\ UNCHANGED <<wName, wReq>>

-----------------------------------------------------------------------------
(* URLs handed to the parser                                               *)

MaxPieces == 3

Scheme == <<"h","t","t","p","s",":","/","/">>

GithubHost == <<"g","i","t","h","u","b",".","c","o","m">>

Hosts ==
    { GithubHost,
      <<"n","o","t","g","i","t","h","u","b",".","c","o","m">>,
      <<"g","i","t","l","a","b",".","c","o","m">> }

NamePieces == { <<"a">>, DotGit, <<"-">>, <<"?">> }

RECURSIVE NamesOfLen(_)
NamesOfLen(n) ==
    IF n = 0 THEN {<<>>}
    ELSE {p \o q : p \in NamePieces, q \in NamesOfLen(n - 1)}

OwnerNames == NamesOfLen(1)

RepoNames == UNION {NamesOfLen(n) : n \in 1..MaxPieces}

TrailingPath == <<"/","t","r","e","e","/","m","a","i","n">>

\* the URL variants of one (host, owner, repo)
RepoVariants == {"git", "slash", "path", "gitslash"}

NoRepoVariants == {"hostOnly", "ownerOnly", "ownerSlash"}

UrlOf(in, variant) ==
    LET root  == Scheme \o in.host
        plain == root \o <<"/">> \o in.owner \o <<"/">> \o in.repo
    IN  CASE variant = "plain"      -> plain
          [] variant = "git"        -> plain \o DotGit
          [] variant = "slash"      -> plain \o <<"/">>
          [] variant = "path"       -> plain \o TrailingPath
          [] variant = "gitslash"   -> plain \o DotGit \o <<"/">>
          [] variant = "hostOnly"   -> root
          [] variant = "ownerOnly"  -> root \o <<"/">> \o in.owner
          [] variant = "ownerSlash" -> root \o <<"/">> \o in.owner \o <<"/">>

NotParsed == [ok |-> FALSE, owner |-> <<"-">>, repo |-> <<"-">>]

ParseIdle ==
    /\ pIn = [host |-> <<>>, owner |-> <<>>, repo |-> <<>>]
    /\ pBase = NotParsed
    /\ pReq = "none"
    /\ pOut = NotParsed

ParseInit ==
    /\ pIn \in [host : Hosts, owner : OwnerNames, repo : RepoNames]
    /\ pBase = NotParsed
    /\ pReq = "none"
    /\ pOut = NotParsed

\* parseGitHubUrl called on https://<host>/<owner>/<repo>
ParsePlain ==
    /\ pBase' = parseGitHubUrl(UrlOf(pIn, "plain"))
    /\ UNCHANGED <<pIn, pReq, pOut>>

\* parseGitHubUrl called on a variant of that URL
ParseVariant(v) ==
    /\ pReq' = v
    /\ pOut' = parseGitHubUrl(UrlOf(pIn, v))
    /\ UNCHANGED <<pIn, pBase>>

-----------------------------------------------------------------------------
(* JavaScript values, as far as processVellumResults reads them            *)

Undefined == [t |-> "undefined"]

TypeError == [t |-> "TypeError"]

Num(n) == [t |-> "number", v |-> n]

Str(x) == [t |-> "string", v |-> x]

Arr(seq) == [t |-> "array", v |-> seq]

\* fields is a function from the names of the properties present to their values
Obj(fields) == [t |-> "object", v |-> fields]

EmptyObj == Obj(<<>>)

\* x.f : a property read; reading a property of undefined throws
Prop(x, f) ==
    IF x.t \in {"undefined", "TypeError"} THEN TypeError
    ELSE IF x.t = "object" THEN (IF f \in DOMAIN x.v THEN x.v[f] ELSE Undefined)
    ELSE IF x.t = "array" /\ f = "length" THEN Num(Len(x.v))
    ELSE Undefined

\* x?.f : optional chaining
OptProp(x, f) == IF x.t = "undefined" THEN Undefined ELSE Prop(x, f)

Truthy(x) ==
    CASE x.t = "undefined" -> FALSE
      [] x.t = "number"    -> x.v # 0
      [] x.t = "string"    -> x.v # ""
      [] OTHER             -> TRUE

NoDefault(a, b) == a

\* a || b
Or(a, b) == IF a.t = "TypeError" THEN a ELSE IF Truthy(a) THEN a ELSE b

\* vellumResult.find(output => output.name === name)
Find(outputs, name) ==
    IF outputs.t # "array" THEN TypeError
    ELSE LET hits == {k \in 1..Len(outputs.v) : Prop(outputs.v[k], "name") = Str(name)}
         IN  IF hits = {} THEN Undefined ELSE outputs.v[Min(hits)]

-----------------------------------------------------------------------------
(* processVellumResults                                                    *)

processVellumResults(vellumResult, owner, repo) ==
    LET scannedFiles == Or(OptProp(Find(vellumResult, "scanned-files"), "value"), EmptyObj)
        fixes        == Or(OptProp(Find(vellumResult, "results"), "value"), EmptyObj)
        summary ==
            [repository          |-> <<owner, repo>>,
             total_files_scanned |->
                 Or(OptProp(Prop(scannedFiles, "classification_summary"), "total_files"), Num(0)),
             total_fixes         |->
                 Or(OptProp(Prop(fixes, "fix_summary"), "total_fixes"), Num(0)),
             high_risk_files     |->
                 Or(OptProp(Prop(scannedFiles, "high_risk_files"), "length"), Num(0)),
             medium_risk_files   |->
                 Or(OptProp(Prop(scannedFiles, "medium_risk_files"), "length"), Num(0)),
             low_risk_files      |->
                 Or(OptProp(Prop(scannedFiles, "low_risk_files"), "length"), Num(0)),
             estimated_fix_time  |->
                 Or(OptProp(Prop(fixes, "fix_summary"), "estimated_fix_time"), Str("Unknown"))]
        vulnerabilities ==
            [high_risk   |-> Or(Prop(scannedFiles, "high_risk_files"), Arr(<<>>)),
             medium_risk |-> Or(Prop(scannedFiles, "medium_risk_files"), Arr(<<>>)),
             low_risk    |-> Or(Prop(scannedFiles, "low_risk_files"), Arr(<<>>))]
        fixList == Or(Prop(fixes, "fixes"), Arr(<<>>))
        guide   == Or(Prop(fixes, "implementation_guide"), EmptyObj)
    IN  [threw |-> \/ \E f \in DOMAIN summary \ {"repository"} : summary[f] = TypeError
                   \/ \E f \in DOMAIN vulnerabilities : vulnerabilities[f] = TypeError
                   \/ fixList = TypeError
                   \/ guide = TypeError,
         summary |-> summary,
         vulnerabilities |-> vulnerabilities,
         fixes |-> fixList,
         implementation_guide |-> guide]

-----------------------------------------------------------------------------
(* Workflow outputs handed to the Result Processor                         *)

MaxFixes == 2

Absent == [t |-> "absent"]

\* the object holding the properties of rec that are not Absent
MkObj(rec) == Obj([f \in {g \in DOMAIN rec : rec[g] # Absent} |-> rec[f]])

RiskFile(name) == MkObj([name |-> Str(name), risk_reason |-> Str("reason")])

FixPaths == <<"a.js", "b.py", "c.go", "d.rb">>

SecurityFix(i) == MkObj([file_path |-> Str(FixPaths[i]), fixed_code |-> Str("code")])

FixList(n) == Arr([i \in 1..n |-> SecurityFix(i)])

\* a fix that carries no fixed_code
UncodedFix(i) == MkObj([file_path |-> Str(FixPaths[i])])

\* a high-risk file that carries no risk_reason
UnexplainedRiskFile(name) == MkObj([name |-> Str(name)])

ScannedValues ==
    {MkObj([classification_summary |-> cs, high_risk_files |-> h,
            medium_risk_files |-> m, low_risk_files |-> l]) :
        cs \in {Absent, EmptyObj, MkObj([total_files |-> Num(3)])},
        h  \in {Absent, Arr(<<RiskFile("a.js")>>)},
        m  \in {Absent, Arr(<<RiskFile("b.py"), RiskFile("c.go")>>)},
        l  \in {Absent, Arr(<<>>)}}

FixesValues ==
    {MkObj([fix_summary |-> fs, fixes |-> fx, implementation_guide |-> g]) :
        fs \in {Absent, EmptyObj, MkObj([total_fixes |-> Num(0)]),
                MkObj([total_fixes |-> Num(2), estimated_fix_time |-> Str("2h")])},
        fx \in {Absent} \cup {FixList(n) : n \in 0..MaxFixes},
        g  \in {Absent, MkObj([steps |-> Arr(<<>>)])}}

Output(name, value) == MkObj([name |-> Str(name), value |-> value])

\* the outputs with the given values; NoOutput leaves the output out of the list
NoOutput == [t |-> "none"]

OutputList(sv, fv, scannedFirst) ==
    LET so == IF sv = NoOutput THEN <<>> ELSE <<Output("scanned-files", sv)>>
        fo == IF fv = NoOutput THEN <<>> ELSE <<Output("results", fv)>>
    IN  Arr(IF scannedFirst THEN so \o fo ELSE fo \o so)

NotProcessed == [threw |-> FALSE, summary |-> <<>>, vulnerabilities |-> <<>>,
                 fixes |-> Undefined, implementation_guide |-> Undefined]

ProcIdle ==
    /\ vIn = Arr(<<>>)
    /\ vOut = NotProcessed

ProcInit ==
    /\ \E sv \in {NoOutput, Absent} \cup ScannedValues,
          fv \in {NoOutput, Absent} \cup FixesValues,
          scannedFirst \in BOOLEAN :
            vIn = OutputList(sv, fv, scannedFirst)
    /\ vOut = NotProcessed

\* processVellumResults(vellumResult, owner, repo)
Process ==
    /\ vOut = NotProcessed
    /\ vOut' = processVellumResults(vIn, <<"o">>, <<"r">>)
    /\ UNCHANGED vIn

-----------------------------------------------------------------------------
(* executeVellumWorkflow                                                   *)

\* what vellum.executeWorkflow(request) may do: reject (network error or a
\* non-2xx answer), or resolve with an execution that is REJECTED or FULFILLED
WorkflowFailure == [kind |-> "error", state |-> "none", outputs |-> Undefined]

WorkflowRejected == [kind |-> "ok", state |-> "REJECTED", outputs |-> Undefined]

NoWorkflowResponse == [kind |-> "none", state |-> "none", outputs |-> Undefined]

WorkflowFulfilled(outputs) == [kind |-> "ok", state |-> "FULFILLED", outputs |-> outputs]

executeVellumWorkflow(response) ==
    IF response.kind = "error" THEN [threw |-> TRUE, outputs |-> Undefined]
    ELSE IF response.state = "REJECTED" THEN [threw |-> TRUE, outputs |-> Undefined]
    ELSE [threw |-> FALSE, outputs |-> response.outputs]

-----------------------------------------------------------------------------
(* The routes POST /patch and POST /read-all-files                         *)

NoResponse == [status |-> 0, kind |-> "none", analysis |-> NotProcessed,
               hasPr |-> FALSE, created |-> FALSE, hasFilesModified |-> FALSE,
               filesModified |-> <<>>, files |-> <<>>, error |-> Undefined]

Respond(status, kind) == [NoResponse EXCEPT !.status = status, !.kind = kind]

CatchAsSuccess == Respond(200, "success")

\* catch (error) { res.status(500).json({ status: 'error', ... }) }
PatchCatch == Respond(500, "error")

\* catch (parseError) { return res.status(400).json(...) }
ReadAllParseCatch == Respond(400, "error")

\* the name of each entry of the repository the routes walk
RouteTree ==
    [n \in Nodes |->
       CASE n = "d1" -> <<"s","r","c">>
         [] n = "d2" -> <<"l","i","b">>
         [] n = "f1" -> <<"a","p","p",".","j","s">>
         [] n = "f2" -> <<"L","I","C","E","N","S","E">>
         [] n = "f3" -> <<"y","a","r","n",".","l","o","c","k">>
         [] n = "f4" -> <<"u","t","i","l",".","p","y">>
         [] n = "s1" -> <<"e","x","t">>
         [] OTHER    -> <<>>]

RouteRepo == [host |-> GithubHost, owner |-> <<"o">>, repo |-> <<"r">>]

\* req.body.url: absent, well-formed, and malformed in several ways
RouteUrls ==
    { <<>>,
      UrlOf(RouteRepo, "plain"),
      UrlOf(RouteRepo, "git"),
      UrlOf(RouteRepo, "ownerOnly"),
      UrlOf([RouteRepo EXCEPT !.host = <<"g","i","t","l","a","b",".","c","o","m">>], "plain"),
      UrlOf([RouteRepo EXCEPT
               !.host = <<"n","o","t","g","i","t","h","u","b",".","c","o","m">>], "plain") }

\* the outputs an execution may come back with
RouteOutputs ==
    LET scanned == MkObj([classification_summary |-> MkObj([total_files |-> Num(3)]),
                          high_risk_files |-> Arr(<<RiskFile("a.js")>>)])
        results(n, k) == MkObj([fix_summary |-> MkObj([total_fixes |-> Num(n)]),
                                fixes |-> FixList(k)])
    IN  { Arr(<<>>),
          OutputList(scanned, NoOutput, TRUE),
          OutputList(NoOutput, results(1, 1), TRUE),
          OutputList(scanned,
                     MkObj([fix_summary |-> MkObj([total_fixes |-> Num(2)]),
                            fixes |-> Arr(<<UncodedFix(1), SecurityFix(2)>>)]), TRUE),
          OutputList(MkObj([high_risk_files |-> Arr(<<UnexplainedRiskFile("a.js")>>)]),
                     results(1, 1), TRUE) }
        \cup {OutputList(scanned, results(n, k), TRUE) : n \in {0, 2}, k \in 0..MaxFixes}

WorkflowResponses ==
    {WorkflowFailure, WorkflowRejected} \cup {WorkflowFulfilled(o) : o \in RouteOutputs}

\* the filter of step 2 of /patch
PatchExtensions ==
    { <<"j","s">>, <<"t","s">>, <<"p","y">>, <<"j","a","v","a">>, <<"p","h","p">>,
      <<"g","o">>, <<"r","b">>, <<"c","s">>, <<"c","p","p">>, <<"c">> }

RelevantFiles(files) ==
    SelectSeq(files, LAMBDA file : ToLowerCase(LastDotPart(file.name)) \in PatchExtensions)

Call(kind, repo, path) == [kind |-> kind, repo |-> repo, path |-> path]

WorkflowCall(files) == [kind |-> "workflow", repo |-> "none", path |-> files]

\* newBranchName before it is minted
NoBranch == <<"none", 0>>

RouteIdle ==
    /\ rRoute = "none"
    /\ rUrl = <<>>
    /\ rPc = "idle"
    /\ rParsed = NoMatch
    /\ rCalls = <<>>
    /\ rWf = NoWorkflowResponse
    /\ rAnalysis = NotProcessed
    /\ rFixIdx = 0
    /\ rApplied = <<>>
    /\ rAck = <<>>
    /\ rDefaultBranch = "none"
    /\ rBranch = NoBranch
    /\ rResp = NoResponse

Finish(response) ==
    /\ rResp' = response
    /\ rPc' = "done"

\* router.post('/patch'): the handler up to its first await
PatchRequest(url) ==
    /\ rPc = "idle"
    /\ rRoute' = "/patch"
    /\ rUrl' = url
    /\ UNCHANGED <<rCalls, rWf, rAnalysis, rFixIdx, rApplied, rAck, rDefaultBranch, rBranch>>
    /\ IF url = <<>>
       THEN /\ Finish(Respond(400, "error"))
            /\ UNCHANGED <<rParsed, walkVars>>
       ELSE LET parsed == parseGitHubUrl(url)
            IN  IF ~parsed.ok
                THEN /\ Finish(PatchCatch)
                     /\ UNCHANGED <<rParsed, walkVars>>
                ELSE /\ rParsed' = parsed
                     /\ rPc' = "walk"
                     /\ UNCHANGED rResp
                     /\ StartWalk

\* router.post('/read-all-files'): the handler up to its first await
ReadAllRequest(url, tokenConfigured) ==
    /\ rPc = "idle"
    /\ rRoute' = "/read-all-files"
    /\ rUrl' = url
    /\ UNCHANGED <<rCalls, rWf, rAnalysis, rFixIdx, rApplied, rAck, rDefaultBranch, rBranch>>
    /\ IF url = <<>>
       THEN /\ Finish(Respond(400, "error"))
            /\ UNCHANGED <<rParsed, walkVars>>
       ELSE IF ~tokenConfigured
       THEN /\ Finish(Respond(500, "error"))
            /\ UNCHANGED <<rParsed, walkVars>>
       ELSE LET parsed == parseGitHubUrl(url)
            IN  IF ~parsed.ok
                THEN /\ Finish(ReadAllParseCatch)
                     /\ UNCHANGED <<rParsed, walkVars>>
                ELSE /\ rParsed' = parsed
                     /\ rPc' = "walk"
                     /\ UNCHANGED rResp
                     /\ StartWalk

\* await getAllFileContents(...) returns in /read-all-files
ReadAllWalkReturns ==
    /\ rPc = "walk"
    /\ rRoute = "/read-all-files"
    /\ wSt["root"] \in {"done", "failed"}
    /\ Finish([Respond(200, "success") EXCEPT !.files = wRes["root"]])
    /\ UNCHANGED <<rRoute, rUrl, rParsed, rCalls, rWf, rAnalysis, rFixIdx, rApplied, rAck, rDefaultBranch, rBranch,
                   walkVars>>

PatchStartsWorkflowEarly ==
    /\ rPc = "walk"
    /\ rRoute = "/patch"
    /\ wSt["root"] \in {"waiting", "done", "failed"}
    /\ rCalls' = Append(rCalls, WorkflowCall(RelevantFiles(wRes["root"])))
    /\ rPc' = "workflow"
    /\ UNCHANGED <<rRoute, rUrl, rParsed, rWf, rAnalysis, rFixIdx, rApplied, rAck, rDefaultBranch, rBranch, rResp,
                   walkVars>>

\* await getAllFileContents(...) returns in /patch: the files are filtered and
\* handed to executeVellumWorkflow
PatchWalkReturns ==
    /\ rPc = "walk"
    /\ rRoute = "/patch"
    /\ wSt["root"] \in {"done", "failed"}
    /\ rCalls' = Append(rCalls, WorkflowCall(RelevantFiles(wRes["root"])))
    /\ rPc' = "workflow"
    /\ UNCHANGED <<rRoute, rUrl, rParsed, rWf, rAnalysis, rFixIdx, rApplied, rAck, rDefaultBranch, rBranch, rResp,
                   walkVars>>

ForkCall == Call("fork", "upstream", <<>>)

PublishWhenFixesListed(analysis) == Len(analysis.fixes.v) > 0

\* the condition of step 5 of /patch
ShouldPublish(analysis) == analysis.summary.total_fixes.v > 0

\* steps 3 to 6 of /patch, up to the first await of createSecurityPullRequest
WorkflowReturns(response) ==
    /\ rPc = "workflow"
    /\ rWf' = response
    /\ UNCHANGED <<rRoute, rUrl, rParsed, rFixIdx, rApplied, rAck, rDefaultBranch, rBranch, walkVars>>
    /\ LET vellumResult == executeVellumWorkflow(response)
           analysis == processVellumResults(vellumResult.outputs, rParsed.owner, rParsed.repo)
       IN  IF vellumResult.threw \/ analysis.threw
           THEN /\ Finish(PatchCatch)
                /\ UNCHANGED <<rCalls, rAnalysis>>
           ELSE /\ rAnalysis' = analysis
                /\ IF ShouldPublish(analysis)
                   THEN /\ rCalls' = Append(rCalls, ForkCall)
                        /\ rPc' = "fork"
                        /\ UNCHANGED rResp
                   ELSE /\ Finish([Respond(200, "success") EXCEPT !.analysis = analysis])
                        /\ UNCHANGED rCalls

-----------------------------------------------------------------------------
(* createSecurityPullRequest, called by /patch                             *)

ReportFile == "PATCHY_SECURITY_REPORT.md"

SummaryFile == "PATCHY_SECURITY_FIXES.md"

FixPath(i) == Prop(rAnalysis.fixes.v[i], "file_path").v

\* forkResponse.data.owner.login: the identity the service forks under
ForkOwner == "patchy-bot"

\* the branch names a repository's default_branch may hold
Branches == {"main", "develop"}

\* the default branch of the original repository
UpstreamDefaultBranch == "main"

\* Date.now() reads one of the instants 1..MaxClock
MaxClock == 2

Clock == 1..MaxClock

newBranchName(now) == <<"patchy-security-fixes-", now>>

UpstreamBranchCall(kind, path, branch) ==
    [kind |-> kind, repo |-> "upstream", path |-> path, branch |-> branch]

\* a call of the publisher that names a branch of the fork
BranchCall(kind, path, branch) ==
    [kind |-> kind, repo |-> "fork", path |-> path, branch |-> branch]

\* POST /repos/{owner}/{repo}/pulls with its head and base
PrCall(head, base) ==
    [kind |-> "createPr", repo |-> "upstream", path |-> <<>>, head |-> head, base |-> base]

\* the status of an answer to the pull-request call; NoStatus stands for a
\* request that got no response (prError.response is undefined)
NoStatus == 0

PrStatuses == {201, 403, 422, NoStatus}

\* catch (prError) of /patch: pullRequestInfo = { created: false, error }
PublisherThrew ==
    [Respond(200, "success") EXCEPT
        !.analysis = rAnalysis, !.hasPr = TRUE, !.error = Str("message")]

\* the value returned when the pull-request call succeeded
PrCreated ==
    [Respond(200, "success") EXCEPT
        !.analysis = rAnalysis, !.hasPr = TRUE, !.created = TRUE,
        !.hasFilesModified = TRUE, !.filesModified = rApplied]

PrFailedWithoutFiles(status) ==
    [Respond(200, "success") EXCEPT
        !.analysis = rAnalysis, !.hasPr = TRUE,
        !.error = Obj([status |-> Num(status), message |-> Str("message")])]

\* the value returned by catch (prError) of createSecurityPullRequest
PrFailed(status) ==
    [Respond(200, "success") EXCEPT
        !.analysis = rAnalysis, !.hasPr = TRUE, !.created = FALSE,
        !.error = Obj([status |-> IF status = NoStatus THEN Undefined ELSE Num(status),
                       message |-> Str("message")]),
        !.hasFilesModified = TRUE, !.filesModified = rApplied]

\* a rejected call outside the try blocks of createSecurityPullRequest
Throw ==
    /\ Finish(PublisherThrew)
    /\ UNCHANGED <<rCalls, rFixIdx, rApplied, rDefaultBranch, rBranch>>

\* the answer to the call awaited is recorded
Ack(ok) == rAck' = Append(rAck, ok)

\* an awaited call went well: the next call is issued
Issue(call, pc) ==
    /\ rCalls' = Append(rCalls, call)
    /\ rPc' = pc
    /\ UNCHANGED rResp

LoopSkippingSummary(i) ==
    /\ rFixIdx' = i
    /\ IF i <= Len(rAnalysis.fixes.v)
       THEN Issue(BranchCall("getFile", FixPath(i), rBranch), "fixGet")
       ELSE IF Len(rAnalysis.fixes.v) = 0
       THEN Issue(PrCall(<<ForkOwner, rBranch>>, rDefaultBranch), "createPr")
       ELSE Issue(BranchCall("putFile", SummaryFile, rBranch), "putSummary")

\* the for loop reaches fix i, or ends and the fix summary is written
LoopTo(i) ==
    /\ rFixIdx' = i
    /\ IF i <= Len(rAnalysis.fixes.v)
       THEN Issue(BranchCall("getFile", FixPath(i), rBranch), "fixGet")
       ELSE Issue(BranchCall("putFile", SummaryFile, rBranch), "putSummary")

PublisherFrame == UNCHANGED <<rRoute, rUrl, rParsed, rWf, rAnalysis, walkVars>>

\* POST /repos/{owner}/{repo}/forks answers
ForkResponds(ok) ==
    /\ rPc = "fork"
    /\ PublisherFrame
    /\ Ack(ok)
    /\ IF ok
       THEN /\ rPc' = "forkWait"
            /\ UNCHANGED <<rCalls, rFixIdx, rApplied, rResp, rDefaultBranch, rBranch>>
       ELSE Throw

\* setTimeout(resolve, 3000) fires: the fork's repository is read
ForkTimerFires ==
    /\ rPc = "forkWait"
    /\ PublisherFrame
    /\ Issue(Call("repoInfo", "fork", <<>>), "repoInfo")
    /\ UNCHANGED <<rFixIdx, rApplied, rAck, rDefaultBranch, rBranch>>

\* GET /repos/{forkOwner}/{forkName} answers with the fork's default_branch;
\* the branch name is minted from Date.now()
RepoInfoResponds(ok, default_branch, now) ==
    /\ rPc = "repoInfo"
    /\ PublisherFrame
    /\ Ack(ok)
    /\ IF ok
       THEN /\ rDefaultBranch' = default_branch
            /\ rBranch' = newBranchName(now)
            /\ Issue(Call("getRef", "fork", default_branch), "getRef")
            /\ UNCHANGED <<rFixIdx, rApplied>>
       ELSE Throw

\* GET .../git/refs/heads/{defaultBranch} answers
RefResponds(ok) ==
    /\ rPc = "getRef"
    /\ PublisherFrame
    /\ Ack(ok)
    /\ IF ok
       THEN /\ Issue(BranchCall("createBranch", <<>>, rBranch), "createBranch")
            /\ UNCHANGED <<rFixIdx, rApplied, rDefaultBranch, rBranch>>
       ELSE Throw

WritesWithoutBranch(ok) ==
    /\ rPc = "createBranch"
    /\ PublisherFrame
    /\ Ack(ok)
    /\ Issue(BranchCall("putFile", ReportFile, rBranch), "putReport")
    /\ UNCHANGED <<rFixIdx, rApplied, rDefaultBranch, rBranch>>

\* POST .../git/refs answers
BranchResponds(ok) ==
    /\ rPc = "createBranch"
    /\ PublisherFrame
    /\ Ack(ok)
    /\ IF ok
       THEN /\ Issue(BranchCall("putFile", ReportFile, rBranch), "putReport")
            /\ UNCHANGED <<rFixIdx, rApplied, rDefaultBranch, rBranch>>
       ELSE Throw

ReportStartsEveryFix(ok) ==
    /\ rPc = "putReport"
    /\ PublisherFrame
    /\ Ack(ok)
    /\ IF ok /\ Len(rAnalysis.fixes.v) > 0
       THEN /\ rCalls' = rCalls \o [i \in 1..Len(rAnalysis.fixes.v) |->
                                        BranchCall("getFile", FixPath(i), rBranch)]
            /\ rPc' = "fixGet"
            /\ rFixIdx' = 1
            /\ UNCHANGED <<rResp, rApplied, rDefaultBranch, rBranch>>
       ELSE IF ok THEN LoopTo(1) /\ UNCHANGED <<rApplied, rDefaultBranch, rBranch>>
       ELSE Throw

\* PUT .../contents/PATCHY_SECURITY_REPORT.md answers
ReportResponds(ok) ==
    /\ rPc = "putReport"
    /\ PublisherFrame
    /\ Ack(ok)
    /\ IF ok THEN LoopTo(1) /\ UNCHANGED <<rApplied, rDefaultBranch, rBranch>>
       ELSE Throw

\* Buffer.from(fix.fixed_code) throws unless fixed_code is a string
HasFixedCode(i) == Prop(rAnalysis.fixes.v[i], "fixed_code").t = "string"

FixGetCreatesFile(ok) ==
    /\ rPc = "fixGet"
    /\ PublisherFrame
    /\ Ack(ok)
    /\ UNCHANGED <<rApplied, rDefaultBranch, rBranch>>
    /\ IF HasFixedCode(rFixIdx)
       THEN /\ Issue(BranchCall("putFile", FixPath(rFixIdx), rBranch), "fixPut")
            /\ UNCHANGED rFixIdx
       ELSE LoopTo(rFixIdx + 1)

\* GET .../contents/{fix.file_path} answers
FixGetResponds(ok) ==
    /\ rPc = "fixGet"
    /\ PublisherFrame
    /\ Ack(ok)
    /\ UNCHANGED <<rApplied, rDefaultBranch, rBranch>>
    /\ IF ok /\ HasFixedCode(rFixIdx)
       THEN /\ Issue(BranchCall("putFile", FixPath(rFixIdx), rBranch), "fixPut")
            /\ UNCHANGED rFixIdx
       ELSE LoopTo(rFixIdx + 1)

FixPutAlwaysApplied(ok) ==
    /\ rPc = "fixPut"
    /\ PublisherFrame
    /\ Ack(ok)
    /\ UNCHANGED <<rDefaultBranch, rBranch>>
    /\ rApplied' = Append(rApplied, FixPath(rFixIdx))
    /\ LoopTo(rFixIdx + 1)

\* PUT .../contents/{fix.file_path} answers
FixPutResponds(ok) ==
    /\ rPc = "fixPut"
    /\ PublisherFrame
    /\ Ack(ok)
    /\ UNCHANGED <<rDefaultBranch, rBranch>>
    /\ rApplied' = IF ok THEN Append(rApplied, FixPath(rFixIdx)) ELSE rApplied
    /\ LoopTo(rFixIdx + 1)

\* prBody reads file.risk_reason.substring(0, 100) of every high-risk file
PrBodyThrows ==
    \E k \in 1..Len(rAnalysis.vulnerabilities.high_risk.v) :
        Prop(rAnalysis.vulnerabilities.high_risk.v[k], "risk_reason").t # "string"

\* PUT .../contents/PATCHY_SECURITY_FIXES.md answers
SummaryResponds(ok) ==
    /\ rPc = "putSummary"
    /\ PublisherFrame
    /\ Ack(ok)
    /\ IF ok /\ ~PrBodyThrows
       THEN /\ Issue(PrCall(<<ForkOwner, rBranch>>, rDefaultBranch), "createPr")
            /\ UNCHANGED <<rFixIdx, rApplied, rDefaultBranch, rBranch>>
       ELSE Throw

\* POST /repos/{owner}/{repo}/pulls answers
PrResponds(status) ==
    /\ rPc = "createPr"
    /\ PublisherFrame
    /\ Ack(status = 201)
    /\ Finish(IF status = 201 THEN PrCreated ELSE PrFailed(status))
    /\ UNCHANGED <<rCalls, rFixIdx, rApplied, rDefaultBranch, rBranch>>

RouteInit ==
    /\ rRoute = "none"
    /\ rUrl = <<>>
    /\ rPc = "idle"
    /\ rParsed = NoMatch
    /\ rCalls = <<>>
    /\ rWf = NoWorkflowResponse
    /\ rAnalysis = NotProcessed
    /\ rFixIdx = 0
    /\ rApplied = <<>>
    /\ rAck = <<>>
    /\ rDefaultBranch = "none"
    /\ rBranch = NoBranch
    /\ rResp = NoResponse
    /\ wName = RouteTree
    /\ wSt = [n \in Nodes |-> "idle"]
    /\ wRes = [n \in Nodes |-> <<>>]
    /\ wReq = {}

-----------------------------------------------------------------------------
(* The route POST /create-fork-pull-request                                *)

MaxChangedFiles == 2

\* the statuses the git provider may answer a call with; NoStatus stands
\* for a request that got no response
ProviderAnswers == {200, 403, 404, 409, 422, 500, NoStatus}

Fulfilled(status) == status \in 200..299

\* catch (error) of the route: 404, 409, 422 and 403 are passed on, the rest is 500
ForkPrCatch(status) ==
    Respond(IF status \in {404, 409, 422, 403} THEN status ELSE 500, "error")

ForkPrIdle ==
    /\ forkExists = FALSE
    /\ fForkStatus = NoStatus
    /\ fFile = <<>>

ForkPrFrame ==
    UNCHANGED <<rRoute, rUrl, rParsed, rWf, rAnalysis, rFixIdx, rApplied, rAck,
                rDefaultBranch, rBranch, walkVars>>

\* an awaited call was rejected outside the inner try blocks
Fail(status) ==
    /\ Finish(ForkPrCatch(status))
    /\ UNCHANGED rCalls

\* a call about changedFiles[f], reading or writing the given branch
FileCall(kind, f, branch) == [kind |-> kind, repo |-> "fork", path |-> f, branch |-> branch]

PullCall == Call("createPull", "upstream", <<>>)

\* the handler up to its first await; n is the length of changedFiles
ForkPrRequest(url, complete, tokenConfigured, n) ==
    /\ rPc = "idle"
    /\ rRoute' = "/create-fork-pull-request"
    /\ rUrl' = url
    /\ UNCHANGED <<rWf, rAnalysis, rFixIdx, rApplied, rAck, rDefaultBranch, rBranch,
                   walkVars, forkExists, fForkStatus>>
    /\ fFile' = IF complete THEN [f \in 1..n |-> "listed"] ELSE <<>>
    /\ IF url = <<>> \/ ~complete
       THEN /\ Finish(Respond(400, "error"))
            /\ UNCHANGED <<rParsed, rCalls>>
       ELSE IF ~tokenConfigured
       THEN /\ Finish(Respond(500, "error"))
            /\ UNCHANGED <<rParsed, rCalls>>
       ELSE LET parsed == parseGitHubUrl(url)
            IN  IF ~parsed.ok
                THEN /\ Finish(Respond(400, "error"))
                     /\ UNCHANGED <<rParsed, rCalls>>
                ELSE /\ rParsed' = parsed
                     /\ Issue(Call("getUser", "provider", <<>>), "fpUser")

\* GET /user answers: the existence of the fork is checked
UserResponds(status) ==
    /\ rPc = "fpUser"
    /\ ForkPrFrame
    /\ UNCHANGED <<forkExists, fForkStatus, fFile>>
    /\ IF Fulfilled(status) THEN Issue(Call("getFork", "fork", <<>>), "fpForkGet")
       ELSE Fail(status)

\* GET /repos/{forkOwner}/{originalRepo} answers
ForkGetResponds(status) ==
    /\ rPc = "fpForkGet"
    /\ ForkPrFrame
    /\ UNCHANGED fFile
    /\ fForkStatus' = status
    /\ forkExists' = Fulfilled(status)
    /\ IF Fulfilled(status) THEN Issue(Call("getBranch", "fork", <<>>), "fpBranch")
       ELSE IF status = 404 THEN Issue(Call("createFork", "upstream", <<>>), "fpFork")
       ELSE Fail(status)

\* POST /repos/{originalOwner}/{originalRepo}/forks answers
ForkPostResponds(status) ==
    /\ rPc = "fpFork"
    /\ ForkPrFrame
    /\ UNCHANGED <<forkExists, fForkStatus, fFile>>
    /\ IF Fulfilled(status) THEN rPc' = "fpForkWait" /\ UNCHANGED <<rCalls, rResp>>
       ELSE Fail(status)

\* setTimeout(resolve, 2000) fires
ForkPrTimerFires ==
    /\ rPc = "fpForkWait"
    /\ ForkPrFrame
    /\ UNCHANGED <<forkExists, fForkStatus, fFile>>
    /\ Issue(Call("getBranch", "fork", <<>>), "fpBranch")

\* GET .../branches/{branch} answers
BranchGetResponds(status) ==
    /\ rPc = "fpBranch"
    /\ ForkPrFrame
    /\ UNCHANGED <<forkExists, fForkStatus, fFile>>
    /\ IF Fulfilled(status) THEN Issue(Call("createRef", "fork", <<>>), "fpRef")
       ELSE Fail(status)

\* POST .../git/refs answers: changedFiles.map starts one update per file
RefPostResponds(status) ==
    /\ rPc = "fpRef"
    /\ ForkPrFrame
    /\ UNCHANGED <<forkExists, fForkStatus>>
    /\ IF ~Fulfilled(status)
       THEN Fail(status) /\ UNCHANGED fFile
       ELSE /\ fFile' = [f \in DOMAIN fFile |-> "getNew"]
            /\ UNCHANGED rResp
            /\ IF Len(fFile) = 0
               THEN /\ rCalls' = Append(rCalls, PullCall)
                    /\ rPc' = "fpPull"
               ELSE /\ rCalls' = rCalls \o [f \in DOMAIN fFile |->
                                               FileCall("getContent", f, "newBranch")]
                    /\ rPc' = "fpFiles"

\* GET .../contents/{file.path}?ref=newBranch answers
FileGetResponds(f, ok) ==
    /\ f \in DOMAIN fFile
    /\ fFile[f] = "getNew"
    /\ ForkPrFrame
    /\ UNCHANGED <<forkExists, fForkStatus, rPc, rResp>>
    /\ IF ok
       THEN /\ rCalls' = Append(rCalls, FileCall("putContent", f, "newBranch"))
            /\ fFile' = [fFile EXCEPT ![f] = "put"]
       ELSE /\ rCalls' = Append(rCalls, FileCall("getContent", f, "branch"))
            /\ fFile' = [fFile EXCEPT ![f] = "getBase"]

\* GET .../contents/{file.path}?ref=branch answers: the file is written
\* with the sha found, or without one
FileBaseGetResponds(f, ok) ==
    /\ f \in DOMAIN fFile
    /\ fFile[f] = "getBase"
    /\ ForkPrFrame
    /\ UNCHANGED <<forkExists, fForkStatus, rPc, rResp>>
    /\ rCalls' = Append(rCalls, FileCall("putContent", f, "newBranch"))
    /\ fFile' = [fFile EXCEPT ![f] = "put"]

FilePutSettles(f, status) ==
    /\ f \in DOMAIN fFile
    /\ fFile[f] = "put"
    /\ ForkPrFrame
    /\ UNCHANGED <<forkExists, fForkStatus>>
    /\ fFile' = [fFile EXCEPT ![f] = IF Fulfilled(status) THEN "done" ELSE "failed"]
    /\ IF rPc # "fpFiles" THEN UNCHANGED <<rPc, rResp, rCalls>>
       ELSE IF \A g \in DOMAIN fFile \ {f} : fFile[g] \in {"done", "failed"}
       THEN Issue(PullCall, "fpPull")
       ELSE UNCHANGED <<rPc, rResp, rCalls>>

\* PUT .../contents/{file.path} answers; Promise.all settles when the first
\* update is rejected or the last one is fulfilled
FilePutResponds(f, status) ==
    /\ f \in DOMAIN fFile
    /\ fFile[f] = "put"
    /\ ForkPrFrame
    /\ UNCHANGED <<forkExists, fForkStatus>>
    /\ fFile' = [fFile EXCEPT ![f] = IF Fulfilled(status) THEN "done" ELSE "failed"]
    /\ IF rPc # "fpFiles" THEN UNCHANGED <<rPc, rResp, rCalls>>
       ELSE IF ~Fulfilled(status) THEN Fail(status)
       ELSE IF \A g \in DOMAIN fFile \ {f} : fFile[g] = "done"
       THEN Issue(PullCall, "fpPull")
       ELSE UNCHANGED <<rPc, rResp, rCalls>>

\* POST /repos/{originalOwner}/{originalRepo}/pulls answers
PullResponds(status) ==
    /\ rPc = "fpPull"
    /\ ForkPrFrame
    /\ UNCHANGED <<forkExists, fForkStatus, fFile>>
    /\ IF Fulfilled(status) THEN Finish(Respond(200, "success")) /\ UNCHANGED rCalls
       ELSE Fail(status)

-----------------------------------------------------------------------------
(* The results page: normalizeConfidence and getSeverityLevel              *)

\* a string value whose characters the code reads
Text(s) == [t |-> "text", v |-> s]

Null == [t |-> "null"]

\* !x
Falsy(x) ==
    CASE x.t \in {"undefined", "null"} -> TRUE
      [] x.t = "number"                 -> x.v = 0
      [] x.t = "text"                   -> x.v = <<>>
      [] OTHER                          -> FALSE

DigitSeq == <<"0","1","2","3","4","5","6","7","8","9">>

RECURSIVE Digits(_)
Digits(n) == IF n < 10 THEN <<DigitSeq[n + 1]>> ELSE Digits(n \div 10) \o <<DigitSeq[(n % 10) + 1]>>

\* String(x)
String(x) ==
    CASE x.t = "text"      -> x.v
      [] x.t = "number"    -> Digits(x.v)
      [] x.t = "null"      -> <<"n","u","l","l">>
      [] OTHER             -> <<"u","n","d","e","f","i","n","e","d">>

UpperChar(c) ==
    IF c \in LowerChars
    THEN UpperSeq[CHOOSE k \in 1..26 : LowerSeq[k] = c]
    ELSE c

\* String.prototype.toUpperCase
ToUpperCase(s) == [k \in 1..Len(s) |-> UpperChar(s[k])]

\* String.prototype.trim
Trim(s) ==
    LET inked == {k \in 1..Len(s) : s[k] # " "}
    IN  IF inked = {} THEN <<>> ELSE SubSeq(s, Min(inked), Max(inked))

HIGH == <<"H","I","G","H">>

MEDIUM == <<"M","E","D","I","U","M">>

LOW == <<"L","O","W">>

CRITICAL == <<"C","R","I","T","I","C","A","L">>

UNKNOWN == <<"U","N","K","N","O","W","N">>

NoSubstringTiers(confidenceStr) == UNKNOWN

\* confidenceStr.includes('HIGH'), then 'MEDIUM', then 'LOW'
SubstringTiers(confidenceStr) ==
    IF Includes(confidenceStr, HIGH) THEN HIGH
    ELSE IF Includes(confidenceStr, MEDIUM) THEN MEDIUM
    ELSE IF Includes(confidenceStr, LOW) THEN LOW
    ELSE UNKNOWN

normalizeConfidence(confidence) ==
    IF Falsy(confidence) THEN UNKNOWN
    ELSE LET confidenceStr == Trim(ToUpperCase(String(confidence)))
         IN  IF SubstringTiers(confidenceStr) # UNKNOWN THEN SubstringTiers(confidenceStr)
             ELSE IF confidenceStr = <<"3">> THEN HIGH
             ELSE IF confidenceStr = <<"2">> THEN MEDIUM
             ELSE IF confidenceStr = <<"1">> THEN LOW
             ELSE UNKNOWN

\* the fallback of getSeverityLevel: severity from the vulnerability type
SeverityOfType(fix) ==
    LET vulnType == ToUpperCase(String(IF Falsy(Prop(fix, "vulnerability_type"))
                                       THEN Text(<<>>)
                                       ELSE Prop(fix, "vulnerability_type")))
    IN  IF \/ Includes(vulnType, <<"I","N","J","E","C","T","I","O","N">>)
           \/ Includes(vulnType, <<"X","S","S">>)
           \/ Includes(vulnType, <<"C","S","R","F">>)
        THEN HIGH
        ELSE MEDIUM

getSeverityLevel(fix) ==
    IF ~Falsy(Prop(fix, "severity")) THEN ToUpperCase(String(Prop(fix, "severity")))
    ELSE IF ~Falsy(Prop(fix, "risk_level")) THEN ToUpperCase(String(Prop(fix, "risk_level")))
    ELSE LET priority == ToUpperCase(String(Prop(fix, "priority")))
         IN  IF ~Falsy(Prop(fix, "priority")) /\ priority \in {HIGH, CRITICAL} THEN HIGH
             ELSE IF ~Falsy(Prop(fix, "priority")) /\ priority = MEDIUM THEN MEDIUM
             ELSE IF ~Falsy(Prop(fix, "priority")) /\ priority = LOW THEN LOW
             ELSE SeverityOfType(fix)

\* the classes of getSeverityColor: red, orange, yellow, and gray by default
getSeverityColor(fix) ==
    LET severity == getSeverityLevel(fix)
    IN  IF severity \in {HIGH, CRITICAL} THEN "red"
        ELSE IF severity = MEDIUM THEN "orange"
        ELSE IF severity = LOW THEN "yellow"
        ELSE "gray"

\* Values handed to the two functions
MaxWords == 2

LevelWords ==
    { <<"h","i","g","h">>, <<"H","I","G","H">>, <<"H","i","g","h">>,
      <<"m","e","d","i","u","m">>, <<"l","o","w">>, <<"c","r","i","t","i","c","a","l">>,
      <<"u","r","g","e","n","t">>, <<"s","l","o","w">>, <<"n","o","t">>,
      <<"m","o","d","e","r","a","t","e">>, <<"3">>, <<"2">>, <<"1">>, <<"7">> }

RECURSIVE Phrases(_)
Phrases(n) ==
    IF n = 0 THEN {<<>>}
    ELSE Phrases(n - 1) \cup
         {p \o (IF p = <<>> THEN <<>> ELSE <<" ">>) \o w : p \in Phrases(n - 1), w \in LevelWords}

Padded(p) == {p, <<" ">> \o p, p \o <<" ">>}

ConfidenceNumbers == 0..4

ConfidenceValues ==
    {Undefined, Null}
        \cup {Num(n) : n \in ConfidenceNumbers}
        \cup {Text(s) : s \in UNION {Padded(p) : p \in Phrases(MaxWords)}}

LevelValues == {Absent, Null, Num(2)} \cup {Text(s) : s \in Phrases(1)}

VulnerabilityTypes ==
    {Absent, Text(<<"S","Q","L"," ","I","n","j","e","c","t","i","o","n">>),
     Text(<<"x","s","s">>), Text(<<"P","a","t","h"," ","T","r","a","v","e","r","s","a","l">>)}

FixObjects ==
    {MkObj([severity |-> s, risk_level |-> r, priority |-> p, vulnerability_type |-> v]) :
        s \in LevelValues, r \in {Absent, Text(<<"l","o","w">>), Text(<<"i","n","f","o">>)},
        p \in LevelValues, v \in VulnerabilityTypes}

NoValue == [t |-> "none"]

NotComputed == <<"?">>

ViewIdle ==
    /\ cConfidence = NoValue
    /\ cTier = NotComputed
    /\ sFix = NoValue
    /\ sLevel = NotComputed
    /\ sColor = "none"

ViewInit ==
    /\ \/ cConfidence \in ConfidenceValues /\ sFix = NoValue
       \/ cConfidence = NoValue /\ sFix \in FixObjects
    /\ cTier = NotComputed
    /\ sLevel = NotComputed
    /\ sColor = "none"

\* the confidence badge of a fix is rendered
NormalizeConfidence ==
    /\ cConfidence # NoValue
    /\ cTier = NotComputed
    /\ cTier' = normalizeConfidence(cConfidence)
    /\ UNCHANGED <<cConfidence, sFix, sLevel, sColor>>

\* the card of a fix is rendered
GetSeverityColor ==
    /\ sFix # NoValue
    /\ sLevel = NotComputed
    /\ sLevel' = getSeverityLevel(sFix)
    /\ sColor' = getSeverityColor(sFix)
    /\ UNCHANGED <<cConfidence, cTier, sFix>>

-----------------------------------------------------------------------------
(* Two runs of createSecurityPullRequest against one upstream repository:  *)
(* how each mints its branch name from Date.now()                          *)

Runs == {1, 2}

\* setTimeout(resolve, 3000)
ForkWaitMs == 3000

\* the clock advances at most MaxTicks times
MaxTicks == 4

BranchIdle ==
    /\ bNow = 0
    /\ bTicks = 0
    /\ bPc = [r \in Runs |-> "idle"]
    /\ bDeadline = [r \in Runs |-> 0]
    /\ bName = [r \in Runs |-> NoBranch]
    /\ bRefs = {}

BranchInit == BranchIdle

\* Date.now() advances, by a millisecond or by the length of the wait
Tick(ms) ==
    /\ bTicks < MaxTicks
    /\ bTicks' = bTicks + 1
    /\ bNow' = bNow + ms
    /\ UNCHANGED <<bPc, bDeadline, bName, bRefs>>

\* a request enters createSecurityPullRequest: the fork is requested
StartRun(r) ==
    /\ bPc[r] = "idle"
    /\ bPc' = [bPc EXCEPT ![r] = "fork"]
    /\ UNCHANGED <<bNow, bTicks, bDeadline, bName, bRefs>>

\* POST forks answers: the run waits for the fork to be ready
RunForkResponds(r, ok) ==
    /\ bPc[r] = "fork"
    /\ bPc' = [bPc EXCEPT ![r] = IF ok THEN "forkWait" ELSE "threw"]
    /\ bDeadline' = [bDeadline EXCEPT ![r] = bNow + ForkWaitMs]
    /\ UNCHANGED <<bNow, bTicks, bName, bRefs>>

\* the timer fires: the fork's repository is read
RunTimerFires(r) ==
    /\ bPc[r] = "forkWait"
    /\ bNow >= bDeadline[r]
    /\ bPc' = [bPc EXCEPT ![r] = "repoInfo"]
    /\ UNCHANGED <<bNow, bTicks, bDeadline, bName, bRefs>>

\* GET of the fork answers: newBranchName is minted from Date.now()
RunRepoInfoResponds(r, ok) ==
    /\ bPc[r] = "repoInfo"
    /\ bPc' = [bPc EXCEPT ![r] = IF ok THEN "getRef" ELSE "threw"]
    /\ bName' = [bName EXCEPT ![r] = IF ok THEN newBranchName(bNow) ELSE @]
    /\ UNCHANGED <<bNow, bTicks, bDeadline, bRefs>>

\* GET of the default branch's ref answers: the new ref is requested
RunRefResponds(r, ok) ==
    /\ bPc[r] = "getRef"
    /\ bPc' = [bPc EXCEPT ![r] = IF ok THEN "createBranch" ELSE "threw"]
    /\ UNCHANGED <<bNow, bTicks, bDeadline, bName, bRefs>>

\* POST .../git/refs answers: the provider refuses a ref that exists
RunBranchResponds(r) ==
    /\ bPc[r] = "createBranch"
    /\ IF bName[r] \in bRefs
       THEN /\ bPc' = [bPc EXCEPT ![r] = "collided"]
            /\ UNCHANGED bRefs
       ELSE /\ bPc' = [bPc EXCEPT ![r] = "branched"]
            /\ bRefs' = bRefs \cup {bName[r]}
    /\ UNCHANGED <<bNow, bTicks, bDeadline, bName>>

-----------------------------------------------------------------------------
(* Specifications                                                          *)

InitParse == ParseInit /\ WalkIdle /\ ProcIdle /\ RouteIdle /\ ForkPrIdle /\ ViewIdle /\ BranchIdle

ParseNext ==
    \/ ParsePlain /\ UNCHANGED <<walkVars, procVars, routeVars, forkPrVars, viewVars, branchVars>>
    \/ \E v \in RepoVariants \cup NoRepoVariants :
           ParseVariant(v) /\ UNCHANGED <<walkVars, procVars, routeVars, forkPrVars, viewVars, branchVars>>

SpecParse == InitParse /\ [][ParseNext]_vars

InitWalk == WalkInit /\ ParseIdle /\ ProcIdle /\ RouteIdle /\ ForkPrIdle /\ ViewIdle /\ BranchIdle

WalkNext ==
    \/ StartWalk /\ UNCHANGED <<parseVars, procVars, routeVars, forkPrVars, viewVars, branchVars>>
    \/ \E d \in Dirs : ListOk(d) /\ UNCHANGED <<parseVars, procVars, routeVars, forkPrVars, viewVars, branchVars>>
    \/ \E d \in Dirs : ListFail(d) /\ UNCHANGED <<parseVars, procVars, routeVars, forkPrVars, viewVars, branchVars>>
    \/ \E f \in Files : ContentOk(f) /\ UNCHANGED <<parseVars, procVars, routeVars, forkPrVars, viewVars, branchVars>>
    \/ \E f \in Files : ContentFail(f) /\ UNCHANGED <<parseVars, procVars, routeVars, forkPrVars, viewVars, branchVars>>
    \/ \E d \in Dirs : Gather(d) /\ UNCHANGED <<parseVars, procVars, routeVars, forkPrVars, viewVars, branchVars>>

SpecWalk == InitWalk /\ [][WalkNext]_vars

InitProc == ProcInit /\ ParseIdle /\ WalkIdle /\ RouteIdle /\ ForkPrIdle /\ ViewIdle /\ BranchIdle

ProcNext == Process /\ UNCHANGED <<parseVars, walkVars, routeVars, forkPrVars, viewVars, branchVars>>

SpecProc == InitProc /\ [][ProcNext]_vars

InitRoute == RouteInit /\ ForkPrIdle /\ ParseIdle /\ ProcIdle /\ ViewIdle /\ BranchIdle

Next ==
    \/ \E url \in RouteUrls : PatchRequest(url) /\ UNCHANGED <<parseVars, procVars, forkPrVars, viewVars, branchVars>>
    \/ \E url \in RouteUrls, tokenConfigured \in BOOLEAN :
           ReadAllRequest(url, tokenConfigured) /\ UNCHANGED <<parseVars, procVars, forkPrVars, viewVars, branchVars>>
    \/ \E d \in Dirs : ListOk(d) /\ UNCHANGED <<parseVars, procVars, routeVars, forkPrVars, viewVars, branchVars>>
    \/ \E d \in Dirs : ListFail(d) /\ UNCHANGED <<parseVars, procVars, routeVars, forkPrVars, viewVars, branchVars>>
    \/ \E f \in Files : ContentOk(f) /\ UNCHANGED <<parseVars, procVars, routeVars, forkPrVars, viewVars, branchVars>>
    \/ \E f \in Files : ContentFail(f) /\ UNCHANGED <<parseVars, procVars, routeVars, forkPrVars, viewVars, branchVars>>
    \/ \E d \in Dirs : Gather(d) /\ UNCHANGED <<parseVars, procVars, routeVars, forkPrVars, viewVars, branchVars>>
    \/ ReadAllWalkReturns /\ UNCHANGED <<parseVars, procVars, forkPrVars, viewVars, branchVars>>
    \/ PatchWalkReturns /\ UNCHANGED <<parseVars, procVars, forkPrVars, viewVars, branchVars>>
    \/ \E response \in WorkflowResponses :
           WorkflowReturns(response) /\ UNCHANGED <<parseVars, procVars, forkPrVars, viewVars, branchVars>>
    \/ \E ok \in BOOLEAN : ForkResponds(ok) /\ UNCHANGED <<parseVars, procVars, forkPrVars, viewVars, branchVars>>
    \/ ForkTimerFires /\ UNCHANGED <<parseVars, procVars, forkPrVars, viewVars, branchVars>>
    \/ \E ok \in BOOLEAN, default_branch \in Branches, now \in Clock :
           RepoInfoResponds(ok, default_branch, now) /\ UNCHANGED <<parseVars, procVars, forkPrVars, viewVars, branchVars>>
    \/ \E ok \in BOOLEAN : RefResponds(ok) /\ UNCHANGED <<parseVars, procVars, forkPrVars, viewVars, branchVars>>
    \/ \E ok \in BOOLEAN : BranchResponds(ok) /\ UNCHANGED <<parseVars, procVars, forkPrVars, viewVars, branchVars>>
    \/ \E ok \in BOOLEAN : ReportResponds(ok) /\ UNCHANGED <<parseVars, procVars, forkPrVars, viewVars, branchVars>>
    \/ \E ok \in BOOLEAN : FixGetResponds(ok) /\ UNCHANGED <<parseVars, procVars, forkPrVars, viewVars, branchVars>>
    \/ \E ok \in BOOLEAN : FixPutResponds(ok) /\ UNCHANGED <<parseVars, procVars, forkPrVars, viewVars, branchVars>>
    \/ \E ok \in BOOLEAN : SummaryResponds(ok) /\ UNCHANGED <<parseVars, procVars, forkPrVars, viewVars, branchVars>>
    \/ \E status \in PrStatuses : PrResponds(status) /\ UNCHANGED <<parseVars, procVars, forkPrVars, viewVars, branchVars>>
    \/ \E url \in RouteUrls, complete \in BOOLEAN, tokenConfigured \in BOOLEAN,
          n \in 0..MaxChangedFiles :
           ForkPrRequest(url, complete, tokenConfigured, n)
               /\ UNCHANGED <<parseVars, procVars, viewVars, branchVars>>
    \/ \E status \in ProviderAnswers : UserResponds(status) /\ UNCHANGED <<parseVars, procVars, viewVars, branchVars>>
    \/ \E status \in ProviderAnswers : ForkGetResponds(status) /\ UNCHANGED <<parseVars, procVars, viewVars, branchVars>>
    \/ \E status \in ProviderAnswers : ForkPostResponds(status) /\ UNCHANGED <<parseVars, procVars, viewVars, branchVars>>
    \/ ForkPrTimerFires /\ UNCHANGED <<parseVars, procVars, viewVars, branchVars>>
    \/ \E status \in ProviderAnswers : BranchGetResponds(status) /\ UNCHANGED <<parseVars, procVars, viewVars, branchVars>>
    \/ \E status \in ProviderAnswers : RefPostResponds(status) /\ UNCHANGED <<parseVars, procVars, viewVars, branchVars>>
    \/ \E f \in 1..MaxChangedFiles, ok \in BOOLEAN :
           FileGetResponds(f, ok) /\ UNCHANGED <<parseVars, procVars, viewVars, branchVars>>
    \/ \E f \in 1..MaxChangedFiles, ok \in BOOLEAN :
           FileBaseGetResponds(f, ok) /\ UNCHANGED <<parseVars, procVars, viewVars, branchVars>>
    \/ \E f \in 1..MaxChangedFiles, status \in ProviderAnswers :
           FilePutResponds(f, status) /\ UNCHANGED <<parseVars, procVars, viewVars, branchVars>>
    \/ \E status \in ProviderAnswers : PullResponds(status) /\ UNCHANGED <<parseVars, procVars, viewVars, branchVars>>

Spec == InitRoute /\ [][Next]_vars

InitView == ViewInit /\ ParseIdle /\ WalkIdle /\ ProcIdle /\ RouteIdle /\ ForkPrIdle /\ BranchIdle

ViewNext ==
    \/ NormalizeConfidence /\ UNCHANGED <<parseVars, walkVars, procVars, routeVars, forkPrVars, branchVars>>
    \/ GetSeverityColor /\ UNCHANGED <<parseVars, walkVars, procVars, routeVars, forkPrVars, branchVars>>

SpecView == InitView /\ [][ViewNext]_vars

InitBranch ==
    BranchInit /\ ParseIdle /\ WalkIdle /\ ProcIdle /\ RouteIdle /\ ForkPrIdle /\ ViewIdle

BranchNext ==
    \/ \E ms \in {1, ForkWaitMs} : Tick(ms) /\ 
           UNCHANGED <<parseVars, walkVars, procVars, routeVars, forkPrVars, viewVars>>
    \/ \E r \in Runs : StartRun(r) /\ 
           UNCHANGED <<parseVars, walkVars, procVars, routeVars, forkPrVars, viewVars>>
    \/ \E r \in Runs, ok \in BOOLEAN : RunForkResponds(r, ok) /\ 
           UNCHANGED <<parseVars, walkVars, procVars, routeVars, forkPrVars, viewVars>>
    \/ \E r \in Runs : RunTimerFires(r) /\ 
           UNCHANGED <<parseVars, walkVars, procVars, routeVars, forkPrVars, viewVars>>
    \/ \E r \in Runs, ok \in BOOLEAN : RunRepoInfoResponds(r, ok) /\ 
           UNCHANGED <<parseVars, walkVars, procVars, routeVars, forkPrVars, viewVars>>
    \/ \E r \in Runs, ok \in BOOLEAN : RunRefResponds(r, ok) /\ 
           UNCHANGED <<parseVars, walkVars, procVars, routeVars, forkPrVars, viewVars>>
    \/ \E r \in Runs : RunBranchResponds(r) /\ 
           UNCHANGED <<parseVars, walkVars, procVars, routeVars, forkPrVars, viewVars>>

SpecBranch == InitBranch /\ [][BranchNext]_vars

-----------------------------------------------------------------------------
(* Claims about the URL Parser                                             *)

AllowedChars == LowerChars \cup UpperChars \cup DigitChars \cup {"-", "_", "."}

AllowedName(s) == \A k \in 1..Len(s) : s[k] \in AllowedChars

ValidInput ==
    /\ pIn.host = GithubHost
    /\ AllowedName(pIn.owner)
    /\ AllowedName(pIn.repo)

BothParsed == pBase # NotParsed /\ pReq \in RepoVariants /\ pOut # NotParsed

\* C1 (as stated): for every owner and repo over the allowed characters, the
\* plain URL and each of its variants (".git", trailing slash, trailing path)
\* parse to the same (owner, repo).
C1_Original ==
    (ValidInput /\ BothParsed) => (pBase.ok /\ pOut = pBase)

\* C1 (amended): the same, for every repo name that does not itself end in
\* ".git.git".
C1_SameRepoRef ==
    (ValidInput /\ BothParsed /\ ~EndsWith(pIn.repo, DotGit \o DotGit))
        => (pBase.ok /\ pOut = pBase)

C1_Witness ==
    /\ ValidInput /\ BothParsed
    /\ pReq = "path"
    /\ EndsWith(pIn.repo, DotGit)
    /\ pBase.ok /\ pOut = pBase
    /\ pOut.owner = pIn.owner

\* C4: every RepoRef the parser returns has an owner and a repo made only of
\* characters of [A-Za-z0-9-_.].
C4_AllowedCharsOnly ==
    (pOut # NotParsed /\ pOut.ok) => (AllowedName(pOut.owner) /\ AllowedName(pOut.repo))

-----------------------------------------------------------------------------
(* Claims about the Repository Fetcher                                     *)

RECURSIVE AncestorsOrSelf(_)
AncestorsOrSelf(n) ==
    IF n = "root" THEN {"root"} ELSE {n} \cup AncestorsOrSelf(Parent(n))

\* n is, or lies below, a directory whose lower-cased name is in the skip-set
UnderSkipDir(n) ==
    \E a \in AncestorsOrSelf(n) \ {"root"} :
        ItemType(a) = "dir" /\ ToLowerCase(wName[a]) \in skipDirectories

\* the entries whose records are in the list a call resolved with
Returned(d) == {wRes[d][k].sha : k \in 1..Len(wRes[d])}

\* C5: no listing or content request is issued at or below a directory whose
\* lower-cased name is in the skip-set, and no file below one is returned.
C5_NeverEntersSkippedDir ==
    /\ \A r \in wReq : ~UnderSkipDir(r.node)
    /\ \A d \in Dirs : \A n \in Returned(d) : ~UnderSkipDir(n)

C5_Witness ==
    /\ wSt["root"] = "done"
    /\ wSt["d1"] = "done"
    /\ wSt["d2"] = "skipped"
    /\ wName["d2"] # ToLowerCase(wName["d2"])
    /\ Returned("root") # {}

\* the file is not skipped by a pattern and its extension is not in the allowlist
OutsideAllowlist(f) ==
    /\ ~MatchesSkipPattern(ToLowerCase(wName[f]))
    /\ ToLowerCase(LastDotPart(wName[f])) \notin relevantExtensions

\* C6: a listed file outside the allowlist (and not skipped by a pattern) gets
\* a record with empty content carrying its path, name and sha, no content
\* request is issued for it, and the record is in the list the walk returns.
C6_MetadataOnly ==
    \A f \in Files :
        (wSt[f] # "idle" /\ OutsideAllowlist(f)) =>
            /\ wRes[f] = << [path |-> PathOf(wName, f), name |-> wName[f],
                             sha |-> f, content |-> <<>>] >>
            /\ \A r \in wReq : ~(r.kind = "content" /\ r.node = f)
            /\ wSt["root"] = "done" =>
                   \E k \in 1..Len(wRes["root"]) : wRes["root"][k] = wRes[f][1]

C6_Witness ==
    /\ wSt["root"] = "done"
    /\ wSt["f1"] = "meta"
    /\ OutsideAllowlist("f1")
    /\ \E k \in 1..Len(wRes["root"]) :
           wRes["root"][k].sha = "f1" /\ wRes["root"][k].content = <<>>
    /\ \E r \in wReq : r.kind = "content"

\* C7: a directory whose listing fails contributes no file, the files of the
\* directories whose listings succeed are all returned, and no call rejects.
C7_PartialFailure ==
    /\ \A d \in Dirs : wSt[d] # Rethrown
    /\ \A d \in Dirs : wSt[d] = "failed" =>
           /\ wRes[d] = <<>>
           /\ \A e \in Dirs : \A n \in Returned(e) : d \notin AncestorsOrSelf(n)
    /\ wSt["root"] = "done" =>
           \A f \in Files :
               wSt[f] \in {"meta", "fetched", "fetchErr"} => f \in Returned("root")

C7_Witness ==
    /\ wSt["root"] = "done"
    /\ wSt["d1"] = "failed"
    /\ {"f1", "f2"} \subseteq Returned("root")
    /\ wSt["f1"] = "fetched"

-----------------------------------------------------------------------------
(* Claims about the Result Processor                                       *)

RECURSIVE Reach(_, _)
\* the value found by following the property names of path from x, if every
\* one of them is present
Reach(x, path) ==
    IF path = <<>> THEN x
    ELSE IF x.t = "object" /\ Head(path) \in DOMAIN x.v
         THEN Reach(x.v[Head(path)], Tail(path))
         ELSE Absent

\* what the workflow outputs hold at output name, property path
Given(name, path) ==
    LET hits == {k \in 1..Len(vIn.v) : vIn.v[k].v["name"] = Str(name)}
    IN  IF hits = {} THEN Absent ELSE Reach(vIn.v[Min(hits)], <<"value">> \o path)

Processed == vOut # NotProcessed

\* C10: processVellumResults returns without failing for every list of
\* outputs; a count whose source is missing is 0, a collection whose source is
\* missing is empty, and what is present is passed on.
C10_DefaultsNeverFails ==
    Processed =>
        /\ ~vOut.threw
        /\ \A c \in {<<"total_files_scanned", "scanned-files",
                       <<"classification_summary", "total_files">> >>,
                     <<"total_fixes", "results", <<"fix_summary", "total_fixes">> >>} :
               vOut.summary[c[1]] =
                   IF Given(c[2], c[3]) = Absent THEN Num(0) ELSE Given(c[2], c[3])
        /\ \A c \in {<<"high_risk_files", "high_risk">>,
                     <<"medium_risk_files", "medium_risk">>,
                     <<"low_risk_files", "low_risk">>} :
               LET src == Given("scanned-files", <<c[1]>>)
               IN  /\ vOut.summary[c[1]] = IF src = Absent THEN Num(0) ELSE Num(Len(src.v))
                   /\ vOut.vulnerabilities[c[2]] = IF src = Absent THEN Arr(<<>>) ELSE src
        /\ vOut.fixes =
               IF Given("results", <<"fixes">>) = Absent THEN Arr(<<>>)
               ELSE Given("results", <<"fixes">>)

C10_Witness ==
    /\ Processed
    /\ ~vOut.threw
    /\ Given("scanned-files", <<>>) = Absent
    /\ Given("results", <<"fix_summary">>) = EmptyObj
    /\ Given("results", <<"fixes">>) = Absent
    /\ vOut.summary.total_fixes = Num(0)
    /\ vOut.fixes = Arr(<<>>)
    /\ vOut.vulnerabilities.high_risk = Arr(<<>>)

-----------------------------------------------------------------------------
(* Claims about the routes                                                 *)

\* the host of a URL: what stands between "https://" and the next "/"
UrlHost(url) ==
    IF ~StartsWithAt(url, 1, Scheme) THEN <<>>
    ELSE LET e == FirstSlashFrom(url, Len(Scheme) + 1)
         IN  SubSeq(url, Len(Scheme) + 1, IF e = 0 THEN Len(url) ELSE e - 1)

\* the path of a URL, after the "/" that ends the host
UrlPath(url) ==
    LET e == FirstSlashFrom(url, Len(Scheme) + 1)
    IN  IF ~StartsWithAt(url, 1, Scheme) \/ e = 0 THEN <<>> ELSE From(url, e + 1)

\* the path holds an owner segment and a repository segment
HasRepoSegment(url) ==
    LET path == UrlPath(url)
        e == FirstSlashFrom(path, 1)
    IN  e > 1 /\ e < Len(path) /\ path[e + 1] # "/"

Malformed(url) == url # <<>> /\ (UrlHost(url) # GithubHost \/ ~HasRepoSegment(url))

PublisherKinds == {"fork", "repoInfo", "getRef", "createBranch", "getFile", "putFile", "createPr"}

PublisherCalls == {k \in 1..Len(rCalls) : rCalls[k].kind \in PublisherKinds}

WorkflowCalls == {k \in 1..Len(rCalls) : rCalls[k].kind = "workflow"}

\* C2: for every malformed URL (no github.com host, or no repository
\* segment) parseGitHubUrl fails, and the route issues no call to the git
\* provider or to the AI workflow.
C2_MalformedUrlNoCalls ==
    (rPc # "idle" /\ Malformed(rUrl)) =>
        /\ ~parseGitHubUrl(rUrl).ok
        /\ ~rParsed.ok
        /\ wReq = {}
        /\ rCalls = <<>>

\* C3: when the URL given to /patch does not parse, the route answers with
\* an HTTP 4xx status and attempts no fetch.
C3_PatchBadUrlIsClientError ==
    (rRoute = "/patch" /\ rPc = "done" /\ rUrl # <<>> /\ ~parseGitHubUrl(rUrl).ok) =>
        /\ rResp.status \in 400..499
        /\ wReq = {}

\* C8: when the workflow call fails or the execution is REJECTED, /patch
\* answers with an HTTP 5xx error body that carries no part of a workflow
\* result, and no call of the publisher is issued.
C8_WorkflowFailureIs5xx ==
    (rWf \in {WorkflowFailure, WorkflowRejected}) =>
        /\ rPc = "done"
        /\ rResp.status \in 500..599
        /\ rResp.kind = "error"
        /\ rResp.analysis = NotProcessed
        /\ rAnalysis = NotProcessed
        /\ ~rResp.hasPr
        /\ PublisherCalls = {}

C8_Witness ==
    /\ rWf = WorkflowRejected
    /\ rRoute = "/patch"
    /\ rResp.status = 500
    /\ Cardinality(WorkflowCalls) = 1
    /\ wSt["root"] = "done"

\* the outputs hold no output of that name
LacksOutput(outputs, name) ==
    \A k \in 1..Len(outputs.v) : outputs.v[k].v["name"] # Str(name)

\* C9: when the workflow returns outputs that lack 'scanned-files' or
\* 'results', /patch answers with an error, not with a success response.
C9_MissingOutputsAreErrors ==
    ( /\ rPc = "done"
      /\ rWf.kind = "ok" /\ rWf.state = "FULFILLED"
      /\ LacksOutput(rWf.outputs, "scanned-files") \/ LacksOutput(rWf.outputs, "results") )
        => (rResp.kind = "error" /\ rResp.status >= 400)

-----------------------------------------------------------------------------
(* Claims about the results page                                           *)

ConfidenceComputed == cConfidence # NoValue /\ cTier # NotComputed

\* the value reads, case and surrounding blanks aside, as a tier name or as
\* one of the numbers 1, 2, 3
ReadsAsTier(confidence) ==
    /\ ~Falsy(confidence)
    /\ Trim(ToUpperCase(String(confidence))) \in {HIGH, MEDIUM, LOW, <<"3">>, <<"2">>, <<"1">>}

\* the value holds a tier name somewhere in its text
HoldsTierName(confidence) ==
    /\ ~Falsy(confidence)
    /\ \E tier \in {HIGH, MEDIUM, LOW} : Includes(ToUpperCase(String(confidence)), tier)

KnownAsHigh == {Text(<<"H","I","G","H">>), Text(<<"h","i","g","h">>), Num(3)}

C12_CanonicalSeverity ==
    (sFix # NoValue /\ sLevel # NotComputed) => sLevel \in {HIGH, MEDIUM, LOW, CRITICAL}

-----------------------------------------------------------------------------
(* Claims about the Remediation Publisher                                  *)

\* the calls createSecurityPullRequest issued so far, in order
Published == SelectSeq(rCalls, LAMBDA c : c.kind \in PublisherKinds)

Answered(k) == k <= Len(rAck)

Succeeded(k) == Answered(k) /\ rAck[k]

IsWrite(call) == call.kind = "putFile"

IsWriteOf(call, file) == call.kind = "putFile" /\ call.path = file

\* the step of the attempt a call belongs to
Phase(call) ==
    CASE call.kind = "fork"                                   -> 1
      [] call.kind \in {"repoInfo", "getRef", "createBranch"} -> 2
      [] call.kind \in {"getFile", "putFile"}                 -> 3
      [] OTHER                                                -> 4

\* the branch was created by a call before the k-th
BranchedBefore(k) ==
    \E j \in 1..(k - 1) :
        /\ Published[j].kind = "createBranch"
        /\ Succeeded(j)
        /\ Published[j].branch = rBranch

\* the positions of the SHA lookups, one per fix attempted, in order
Lookups == {k \in 1..Len(Published) : Published[k].kind = "getFile"}

LookupOf(i) == CHOOSE k \in Lookups : Cardinality({j \in Lookups : j <= k}) = i

\* the lookup of fix i and the write that follows it both succeeded
Written(i) ==
    /\ i <= Cardinality(Lookups)
    /\ Succeeded(LookupOf(i))
    /\ LookupOf(i) + 1 <= Len(Published)
    /\ IsWriteOf(Published[LookupOf(i) + 1], FixPath(i))
    /\ Succeeded(LookupOf(i) + 1)

FixCount == IF rAnalysis = NotProcessed THEN 0 ELSE Len(rAnalysis.fixes.v)

RECURSIVE WrittenUpTo(_)
WrittenUpTo(n) ==
    IF n = 0 THEN <<>>
    ELSE WrittenUpTo(n - 1) \o (IF Written(n) THEN <<FixPath(n)>> ELSE <<>>)

\* the paths of the fixes whose lookup and write both succeeded, in order
ExpectedFiles == WrittenUpTo(FixCount)

LoopOver == rFixIdx > FixCount /\ rFixIdx > 0

\* C13: an attempt only moves forward through fork, branch creation, file
\* writes and pull request; no file write is issued before the branch
\* creation succeeded, and the pull-request call is issued only after the
\* branch exists, every fix was attempted with its write answered, and both
\* report writes succeeded.
C13_ForwardOnly ==
    /\ \A j, k \in 1..Len(Published) : j < k => Phase(Published[j]) <= Phase(Published[k])
    /\ \A k \in 1..Len(Published) : k > 1 => Answered(k - 1)
    /\ \A k \in 1..Len(Published) : IsWrite(Published[k]) => BranchedBefore(k)
    /\ \A k \in 1..Len(Published) :
           Published[k].kind = "createPr" =>
               /\ BranchedBefore(k)
               /\ Cardinality(Lookups) = FixCount
               /\ \A j \in 1..(k - 1) : Answered(j)
               /\ \E j \in 1..(k - 1) : IsWriteOf(Published[j], ReportFile) /\ Succeeded(j)
               /\ \E j \in 1..(k - 1) : IsWriteOf(Published[j], SummaryFile) /\ Succeeded(j)

C13_Witness ==
    /\ rPc = "done"
    /\ rResp.created
    /\ Len(rApplied) = 2
    /\ Published[Len(Published)].kind = "createPr"

\* C16: a failed SHA lookup or write of one fix is caught: every fix of the
\* list is still attempted, and files_modified is exactly the fixes whose
\* lookup and write both succeeded, in the order of the fixes list.
C16_OnlyWrittenFixesListed ==
    /\ LoopOver =>
           /\ Cardinality(Lookups) = FixCount
           /\ \A i \in 1..FixCount : Published[LookupOf(i)].path = FixPath(i)
           /\ rApplied = ExpectedFiles
    /\ (rPc = "done" /\ rResp.hasFilesModified) => rResp.filesModified = ExpectedFiles

C16_Witness ==
    /\ rPc = "done"
    /\ FixCount = 2
    /\ ~Written(1)
    /\ Written(2)
    /\ rResp.hasFilesModified
    /\ rResp.filesModified = <<FixPath(2)>>

\* the pull-request call was issued and answered
PrAnswered ==
    /\ Len(Published) > 0
    /\ Published[Len(Published)].kind = "createPr"
    /\ Answered(Len(Published))

\* C17: whether the pull-request call succeeds or fails, the outcome lists
\* the same files_modified (the fixes written before the call); it has
\* created = true on success, created = false with a populated error on
\* failure, and /patch answers with status 'success' either way.
C17_SameFilesEitherWay ==
    PrAnswered =>
        /\ rPc = "done"
        /\ rResp.status = 200
        /\ rResp.kind = "success"
        /\ rResp.hasPr
        /\ rResp.hasFilesModified
        /\ rResp.filesModified = ExpectedFiles
        /\ rResp.created = Succeeded(Len(Published))
        /\ rResp.created => rResp.error = Undefined
        /\ ~rResp.created =>
               /\ rResp.error.t = "object"
               /\ Prop(rResp.error, "message").t = "string"

C17_Witness ==
    /\ PrAnswered
    /\ ~rResp.created
    /\ Prop(rResp.error, "status") = Num(403)
    /\ rAnalysis.summary.total_fixes = Num(2)
    /\ Len(rResp.filesModified) = 2

\* C18: whenever at least one fix file was committed during a /patch
\* request, the response's pullRequest lists those files as modified,
\* whichever later step of the publisher failed.
C18_WrittenFilesAlwaysReported ==
    (rRoute = "/patch" /\ rPc = "done" /\ rApplied # <<>>) =>
        /\ rResp.hasPr
        /\ rResp.hasFilesModified
        /\ rResp.filesModified = rApplied

\* C19: the pull request has head fork-owner:new-branch and base equal to
\* the default branch of the original repository, also when the fork's
\* default branch differs.
C19_BaseIsUpstreamDefault ==
    \A k \in 1..Len(Published) :
        Published[k].kind = "createPr" =>
            /\ Published[k].head = <<ForkOwner, rBranch>>
            /\ Published[k].base = UpstreamDefaultBranch

ForkCreations == {k \in 1..Len(rCalls) : rCalls[k].kind \in {"fork", "createFork"}}

\* the existence checks of the fork
ForkChecks == {k \in 1..Len(rCalls) : rCalls[k].kind = "getFork"}

\* C14: in every code path of the publisher a GET on the would-be fork comes
\* first; when it answers 200 no fork-creation call is made, and a
\* fork-creation call is made only when it answered 404.
C14_ForkOnlyAfterCheck ==
    /\ \A k \in ForkCreations : (\E j \in ForkChecks : j < k) /\ fForkStatus = 404
    /\ fForkStatus = 200 => ForkCreations = {}

-----------------------------------------------------------------------------
(* Claims about concurrent runs of the publisher                           *)

\* C15: any two runs against the same upstream repository, concurrent runs
\* included, mint two distinct branch names, and no branch creation collides
\* with the branch of the other run.
C15_DistinctBranchNames ==
    /\ \A r1, r2 \in Runs :
           (r1 # r2 /\ bName[r1] # NoBranch /\ bName[r2] # NoBranch) => bName[r1] # bName[r2]
    /\ \A r \in Runs : bPc[r] # "collided"

-----------------------------------------------------------------------------
(* Claims about what the routes hand on and answer                         *)

\* C21: the payload /patch submits to the AI workflow holds exactly the file
\* records the Repository Fetcher returned.
C21_PayloadIsRetainedSet ==
    \A k \in WorkflowCalls : rCalls[k].path = wRes["root"]

\* C22: when the git provider refuses the listing of the repository (404,
\* 403), /read-all-files answers with that error; it answers success only
\* when the listing was obtained.
C22_ReadAllSurfacesListingError ==
    (rRoute = "/read-all-files" /\ rPc = "done" /\ wSt["root"] = OnListError) =>
        /\ rResp.kind = "error"
        /\ rResp.status >= 400

\* C27: whenever parseGitHubUrl accepts its input, the owner and the repo it
\* returns are both non-empty, also when the repository segment is just
\* ".git".
C27_NonEmptyOwnerAndRepo ==
    /\ (pBase # NotParsed /\ pBase.ok) => (pBase.owner # <<>> /\ pBase.repo # <<>>)
    /\ (pOut # NotParsed /\ pOut.ok) => (pOut.owner # <<>> /\ pOut.repo # <<>>)

\* the count the workflow reported in the "results" output, 0 when it reported none
ReportedTotalFixes(outputs) ==
    LET hits == {k \in 1..Len(outputs.v) : outputs.v[k].v["name"] = Str("results")}
    IN  IF hits = {} THEN 0
        ELSE LET value == outputs.v[Min(hits)].v["value"]
             IN  IF /\ "fix_summary" \in DOMAIN value.v
                    /\ "total_fixes" \in DOMAIN value.v["fix_summary"].v
                 THEN value.v["fix_summary"].v["total_fixes"].v
                 ELSE 0

PublisherInvoked == \E k \in DOMAIN rCalls : rCalls[k] = ForkCall

\* C23: once /patch has processed the workflow's outputs, summary.total_fixes
\* is the count the workflow reported (0 when it reported none), whatever the
\* length of the fixes list, and the publisher has been invoked exactly when
\* that reported count is greater than 0.
C23_TrustsReportedCount ==
    (rRoute = "/patch" /\ rAnalysis # NotProcessed) =>
        /\ rAnalysis.summary.total_fixes = Num(ReportedTotalFixes(rWf.outputs))
        /\ PublisherInvoked <=> ReportedTotalFixes(rWf.outputs) > 0

\* two fixes reported, none listed, and the publisher invoked
C23_Witness ==
    /\ rRoute = "/patch"
    /\ rAnalysis # NotProcessed
    /\ ReportedTotalFixes(rWf.outputs) = 2
    /\ rAnalysis.fixes = Arr(<<>>)
    /\ PublisherInvoked

FixWrites ==
    {k \in 1..Len(Published) :
        /\ Published[k].kind = "putFile"
        /\ \E i \in 1..FixCount : Published[k].path = FixPath(i)}

\* C24: in createSecurityPullRequest the i-th SHA lookup is the lookup of fix
\* i; it is issued only when every earlier call of the publisher (the lookup
\* and the write of fix i-1 among them) has been answered; a fix write
\* directly follows the lookup of its own path; so at most one call, and at
\* most one fix write, is unanswered at any time.
C24_OneFixAtATime ==
    rRoute = "/patch" =>
        /\ \A k \in Lookups :
              /\ Published[k].path = FixPath(Cardinality({j \in Lookups : j <= k}))
              /\ \A j \in 1..(k - 1) : Answered(j)
        /\ \A k \in FixWrites :
              /\ k - 1 \in Lookups
              /\ Published[k - 1].path = Published[k].path
              /\ Succeeded(k - 1)
        /\ Cardinality({k \in FixWrites : ~Answered(k)}) <= 1
        /\ Len(Published) <= Len(rAck) + 1

\* the second fix is being looked up after the write of the first was answered
\* with a failure
C24_Witness ==
    /\ rRoute = "/patch"
    /\ Cardinality(Lookups) = 2
    /\ Cardinality(FixWrites) = 1
    /\ \E k \in FixWrites : Answered(k) /\ ~rAck[k]
    /\ ~Answered(LookupOf(2))

PullRequested == \E k \in DOMAIN rCalls : rCalls[k] = PullCall

\* C25: in /create-fork-pull-request the pull-request call is issued only
\* when the update of every changed file was fulfilled; once the update of
\* one file is rejected, no pull-request call is made and the route answers
\* with an error, whatever became of the other files' updates.
C25_PullOnlyAfterEveryUpdate ==
    rRoute = "/create-fork-pull-request" =>
        /\ PullRequested => \A f \in DOMAIN fFile : fFile[f] = "done"
        /\ (\E f \in DOMAIN fFile : fFile[f] = "failed") =>
              /\ ~PullRequested
              /\ rPc = "done"
              /\ rResp.kind = "error"
              /\ rResp.status >= 400

\* one file's commit is on the branch, another file's update was rejected
C25_Witness ==
    /\ rRoute = "/create-fork-pull-request"
    /\ \E f, g \in DOMAIN fFile : fFile[f] = "done" /\ fFile[g] = "failed"
    /\ ~PullRequested
    /\ rResp.kind = "error"

\* the requests of the walk that have not been answered
InFlight == {req \in wReq : wSt[req.node] \in {"listing", "fetching"}}

\* C26: within one /patch request the AI workflow is invoked at most once, and
\* exactly once when the route goes on past the walk; when it is invoked,
\* every listing and content request the walk started has been answered
\* (with success or failure) and every directory listed has gathered the
\* results of its entries.
C26_WorkflowAfterWalkSettled ==
    rRoute = "/patch" =>
        /\ Cardinality(WorkflowCalls) <= 1
        /\ rPc \notin {"idle", "walk", "done"} => Cardinality(WorkflowCalls) = 1
        /\ WorkflowCalls # {} =>
              /\ InFlight = {}
              /\ \A n \in Nodes : wSt[n] \in Settled \cup {"idle"}
              /\ wSt["root"] \in {"done", OnListError}

\* the workflow was invoked after a walk of several requests, some answered
\* with success and some with failure
C26_Witness ==
    /\ rRoute = "/patch"
    /\ Cardinality(WorkflowCalls) = 1
    /\ Cardinality(wReq) >= 4
    /\ \E n \in Nodes : wSt[n] = "fetched"
    /\ \E n \in Nodes : wSt[n] \in {"fetchErr", OnListError}

-----------------------------------------------------------------------------
(* Claims about the order of the walk's result                             *)

RECURSIVE RecordsBelow(_, _)
RECURSIVE RecordsOf(_)
\* the records of the entries kids, one entry after the other
RecordsBelow(kids, k) ==
    IF k > Len(kids) THEN <<>> ELSE RecordsOf(kids[k]) \o RecordsBelow(kids, k + 1)

\* what entry n contributes, given only how each request was answered
RecordsOf(n) ==
    CASE wSt[n] = "fetched"            -> <<FileRecord(n, DecodedContent(n))>>
      [] wSt[n] \in {"meta", "fetchErr"} -> <<FileRecord(n, <<>>)>>
      [] wSt[n] = "done"               -> RecordsBelow(Children(n), 1)
      [] OTHER                         -> <<>>

\* C28: the list getAllFileContents returns is determined by how each request
\* was answered, not by when: it holds the records of the entries in
\* directory listing order, depth-first, whatever the order in which the
\* concurrent requests completed.
C28_ResultIndependentOfCompletionOrder ==
    \A d \in Dirs : wSt[d] = "done" => wRes[d] = RecordsOf(d)

\* the walk returned records from three levels of the tree
C28_Witness ==
    /\ wSt["root"] = "done"
    /\ wSt["d1"] = "done"
    /\ wSt["d2"] = "done"
    /\ wSt["f4"] = "fetched"
    /\ wSt["f1"] \in {"fetched", "fetchErr"}
    /\ Len(wRes["root"]) >= 3
    /\ wRes["root"][1].sha = "f3"

-----------------------------------------------------------------------------
(* Claims about the files and the repositories the publisher writes to     *)

\* the fixes whose SHA lookup was answered with a failure
MissingOnBranch ==
    {i \in 1..Cardinality(Lookups) : Answered(LookupOf(i)) /\ ~rAck[LookupOf(i)]}

\* C29: when the SHA lookup of a fix fails (its file_path is not on the new
\* branch), createSecurityPullRequest issues no write for that path, and the
\* path is neither among the applied fixes nor in files_modified.
C29_NeverCreatesFixFile ==
    rRoute = "/patch" =>
        \A i \in MissingOnBranch :
            /\ \A k \in 1..Len(Published) : ~IsWriteOf(Published[k], FixPath(i))
            /\ \A j \in 1..Len(rApplied) : rApplied[j] # FixPath(i)
            /\ \A j \in 1..Len(rResp.filesModified) : rResp.filesModified[j] # FixPath(i)

\* the pull request was created although the file of the first fix was missing
C29_Witness ==
    /\ rRoute = "/patch"
    /\ 1 \in MissingOnBranch
    /\ rResp.created
    /\ rResp.hasFilesModified
    /\ \E j \in 1..Len(rResp.filesModified) : rResp.filesModified[j] = FixPath(2)

WriteKinds == {"createBranch", "putFile"}

\* C30: during a /patch request every branch creation and every file write
\* targets the repository the fork call returned; the only calls made against
\* the upstream repository are the reads of the walk, the fork request and
\* the pull-request creation.
C30_UpstreamNeverWritten ==
    rRoute = "/patch" =>
        /\ \A k \in 1..Len(rCalls) :
              /\ rCalls[k].kind \in WriteKinds => rCalls[k].repo = "fork"
              /\ rCalls[k].repo = "upstream" => rCalls[k].kind \in {"fork", "createPr"}
              /\ rCalls[k].repo = "fork" => \E j \in 1..(k - 1) : rCalls[j] = ForkCall
        /\ \A req \in wReq : req.kind \in {"list", "content"}

\* the branch was created, files were written and the pull request was asked for
C30_Witness ==
    /\ rRoute = "/patch"
    /\ wReq # {}
    /\ \E k \in 1..Len(rCalls) : rCalls[k].kind = "createBranch"
    /\ Cardinality({k \in 1..Len(rCalls) : rCalls[k].kind = "putFile"}) >= 3
    /\ \E k \in 1..Len(rCalls) : rCalls[k].kind = "createPr" /\ rCalls[k].repo = "upstream"

====
